---------------------------- MODULE Spec2Model ----------------------------
(***************************************************************************)
(* Model of the real-estate poster template agent: the chat endpoint of    *)
(* src/app.py and the LangGraph pipeline user_turn -> check_requirements   *)
(* -> (generate_template) -> ai_turn of src/agents.                        *)
(*                                                                         *)
(* A user message is a sequence of phrases joined by newlines.  Each       *)
(* phrase is a concrete text; PhraseTable records, per phrase, what every  *)
(* regular expression and keyword test of the source finds in that text.   *)
(* The priority rules, the merging, the price conversion and the session   *)
(* state machine are computed by the operators below as the code computes  *)
(* them.                                                                   *)
(*                                                                         *)
(* The history (messages) of a state holds the entries appended since the  *)
(* request in flight arrived.  The older entries are left out: the code    *)
(* reads the history only for its last HumanMessage, which chat_endpoint   *)
(* appends before the graph runs, and hands the rest to the language       *)
(* model.  With that the number of turns of a session is not bounded.      *)
(*                                                                         *)
(* Six specifications:                                                     *)
(*   Spec         the chat endpoint, one session, any number of turns;     *)
(*   SpecNode     one graph node applied once to any AgentState;           *)
(*   SpecLoop     the event loop with requests that arrive together for    *)
(*                two sessions, the history kept whole;                    *)
(*   SpecExtract  the extraction functions applied once to any text;       *)
(*   SpecMerge    extraction and merge applied twice to the same message;  *)
(*   SpecRender   the rendering tool invoked once on any stored            *)
(*                parameters.                                              *)
(***************************************************************************)
EXTENDS Integers, Sequences, FiniteSets, TLC

(***************************************************************************)
(* Bounds of the model.                                                    *)
(***************************************************************************)
\* phrases per user message
MaxPhrases == 2

(***************************************************************************)
(* Phrases.  NoDigit marks "the pattern does not match"; NoText an absent  *)
(* capture; NoChars an absent numeric capture (a tuple of characters).     *)
(***************************************************************************)
NoDigit == -1
NoText == ""
NoChars == <<>>
EmptyParams == <<>>

\* a dict with the single entry k: v
Entry(k, v) == [x \in {k} |-> v]

\* dict.update: the entries of b overwrite those of a, the other keys of a stay
Update(a, b) ==
    [k \in (DOMAIN a) \cup (DOMAIN b) |-> IF k \in DOMAIN b THEN b[k] ELSE a[k]]

NoMatch ==
    [ tplExplicit |-> NoDigit,   \* nodes.py:18  (use|select|...) [the] template (\d)
      tplBare     |-> NoDigit,   \* nodes.py:25  template [number|#] (\d)
      theme       |-> {},        \* nodes.py:32-36 thematic keyword sets found
      urlAbsExt   |-> NoText,    \* nodes.py:51  https?://...(jpg|jpeg|png|gif|webp)
      urlWwwExt   |-> NoText,    \* nodes.py:55  www....(jpg|jpeg|png|gif|webp)
      urlWwwAny   |-> NoText,    \* nodes.py:63  www.\S+\.\w+
      priceModTo  |-> NoChars,   \* nodes.py:71  (modify|...) [the] price (to|as|be) $?X
      priceModAny |-> NoChars,   \* nodes.py:272 the same with (to|as|be) optional
      priceDollar |-> NoChars,   \* nodes.py:85  $X
      priceWord   |-> NoChars,   \* nodes.py:88  (price|cost|value) ... X
      t1Text      |-> EmptyParams, \* nodes.py:102-116
      t1Color     |-> EmptyParams, \* nodes.py:119-135
      t1Adj       |-> EmptyParams, \* nodes.py:153-165
      t2Fields    |-> EmptyParams, \* nodes.py:170-193
      t3Fields    |-> EmptyParams, \* nodes.py:198-237
      kwRegen     |-> FALSE,     \* nodes.py:301-305
      kwUrl       |-> FALSE,     \* nodes.py:303-306, app.py:175-176
      kwGen       |-> FALSE,     \* app.py:171-172
      plain       |-> TRUE,      \* every character is one of [\w\s-] (nodes.py:119)
      wordEnd     |-> TRUE ]     \* the last character is one of [\w\s-]

\* the phrases user messages are made of
Phrases ==
    << "use template 2", "template 3",
       "www.x.com/a.png", "http://y.com/b.jpg",
       "$450,000", "set price to 500000",
       "generate it", "show me",
       "button color red", "thanks" >>

Vocabulary == { Phrases[i] : i \in 1..Len(Phrases) }

\* the phrases the texts given to the extraction functions alone are made of
ExtractPhrases ==
    << "use template 7", "use template 3", "select template 1", "use template 2",
       "template 5", "template #25", "template 3", "template 1",
       "buy now", "contact", "best home",
       "http://y.com/b.jpg", "https://v.com/c.png?w=9",
       "www.x.com/a.png", "www.z.com/home",
       "$450,000", "change the price to $450,000.00", "set price to 500000",
       "make price be 1.2.3", "$1.2.3", "cost 450000",
       "thanks" >>

ExtractVocabulary == { ExtractPhrases[i] : i \in 1..Len(ExtractPhrases) }

\* the phrases the texts whose parameters are extracted and merged are made of
MergePhrases ==
    << "modern color should be blue", "cta color should be #FFFFFF",
       "red modern", "gold modern", "red button",
       "www.x.com/a.png", "http://y.com/b.jpg",
       "$450,000", "set price to 500000",
       "button color red", "thanks!", "thanks" >>

MergeVocabulary == { MergePhrases[i] : i \in 1..Len(MergePhrases) }

PhraseTable ==
    [ t \in Vocabulary \cup ExtractVocabulary \cup MergeVocabulary |->
        CASE t = "use template 2" ->
               [NoMatch EXCEPT !.tplExplicit = 2, !.tplBare = 2, !.theme = {2}]
          [] t = "template 3" ->
               [NoMatch EXCEPT !.tplBare = 3, !.theme = {3}]
          [] t = "www.x.com/a.png" ->
               [NoMatch EXCEPT !.plain = FALSE, !.urlWwwExt = "www.x.com/a.png",
                               !.urlWwwAny = "www.x.com/a.png"]
          [] t = "http://y.com/b.jpg" ->
               [NoMatch EXCEPT !.plain = FALSE, !.urlAbsExt = "http://y.com/b.jpg"]
          [] t = "$450,000" ->
               [NoMatch EXCEPT !.plain = FALSE, !.priceDollar = <<"4", "5", "0", ",", "0", "0", "0">>]
          [] t = "set price to 500000" ->
               [NoMatch EXCEPT !.priceModTo = <<"5", "0", "0", "0", "0", "0">>,
                               !.priceModAny = <<"5", "0", "0", "0", "0", "0">>,
                               !.priceWord = <<"5", "0", "0", "0", "0", "0">>]
          [] t = "generate it" ->
               [NoMatch EXCEPT !.kwRegen = TRUE, !.kwGen = TRUE]
          [] t = "show me" ->
               [NoMatch EXCEPT !.kwUrl = TRUE]
          [] t = "button color red" ->
               [NoMatch EXCEPT !.t3Fields = Entry("cta_color", "red")]
          [] t = "use template 7" ->
               [NoMatch EXCEPT !.tplExplicit = 7, !.tplBare = 7]
          [] t = "use template 3" ->
               [NoMatch EXCEPT !.tplExplicit = 3, !.tplBare = 3, !.theme = {3}]
          [] t = "select template 1" ->
               [NoMatch EXCEPT !.tplExplicit = 1, !.tplBare = 1]
          [] t = "template 5" ->
               [NoMatch EXCEPT !.tplBare = 5]
          \* (\d) takes the first digit of 25
          [] t = "template #25" ->
               [NoMatch EXCEPT !.plain = FALSE, !.tplBare = 2]
          [] t = "template 1" ->
               [NoMatch EXCEPT !.tplBare = 1]
          [] t = "buy now" ->
               [NoMatch EXCEPT !.theme = {1}]
          [] t = "contact" ->
               [NoMatch EXCEPT !.theme = {2}]
          [] t = "best home" ->
               [NoMatch EXCEPT !.theme = {3}]
          \* \S+\.(jpg|jpeg|png|gif|webp) ends the match at the extension
          [] t = "https://v.com/c.png?w=9" ->
               [NoMatch EXCEPT !.plain = FALSE, !.urlAbsExt = "https://v.com/c.png"]
          \* www\.\S+\.\w+ ends the match at the word after the last dot
          [] t = "www.z.com/home" ->
               [NoMatch EXCEPT !.plain = FALSE, !.urlWwwAny = "www.z.com"]
          [] t = "change the price to $450,000.00" ->
               [NoMatch EXCEPT
                  !.plain = FALSE, !.priceModTo  = <<"4", "5", "0", ",", "0", "0", "0", ".", "0", "0">>,
                  !.priceModAny = <<"4", "5", "0", ",", "0", "0", "0", ".", "0", "0">>,
                  !.priceDollar = <<"4", "5", "0", ",", "0", "0", "0", ".", "0", "0">>,
                  !.priceWord   = <<"4", "5", "0", ",", "0", "0", "0", ".", "0", "0">>,
                  !.kwRegen = TRUE]
          [] t = "make price be 1.2.3" ->
               [NoMatch EXCEPT !.plain = FALSE, !.priceModTo = <<"1", ".", "2", ".", "3">>,
                               !.priceModAny = <<"1", ".", "2", ".", "3">>,
                               !.priceWord = <<"1", ".", "2", ".", "3">>,
                               !.kwRegen = TRUE, !.kwGen = TRUE]
          [] t = "$1.2.3" ->
               [NoMatch EXCEPT !.plain = FALSE, !.priceDollar = <<"1", ".", "2", ".", "3">>]
          [] t = "cost 450000" ->
               [NoMatch EXCEPT !.priceWord = <<"4", "5", "0", "0", "0", "0">>]
          [] t = "modern color should be blue" ->
               [NoMatch EXCEPT !.t1Color = Entry("modern_color", "blue")]
          [] t = "cta color should be #FFFFFF" ->
               [NoMatch EXCEPT !.plain = FALSE, !.t1Color = Entry("cta_color", "#FFFFFF")]
          [] t = "red modern" ->
               [NoMatch EXCEPT !.t1Adj = Entry("modern_color", "red")]
          [] t = "gold modern" ->
               [NoMatch EXCEPT !.t1Adj = Entry("modern_color", "gold")]
          [] t = "red button" ->
               [NoMatch EXCEPT !.t1Adj = Entry("cta_color", "red")]
          [] t = "thanks!" ->
               [NoMatch EXCEPT !.plain = FALSE, !.wordEnd = FALSE]
          [] t = "thanks" ->
               NoMatch ]

\* what a phrase says, whatever the patterns of the source find in it: the
\* number N of a "use/select template N" phrase, the number written after
\* "template", and the URL with its kind
NoSignal == [ explicit |-> NoDigit, mention |-> NoDigit, url |-> NoText, urlKind |-> "" ]

PhraseText ==
    [ t \in ExtractVocabulary |->
        CASE t = "use template 7"    -> [NoSignal EXCEPT !.explicit = 7, !.mention = 7]
          [] t = "use template 3"    -> [NoSignal EXCEPT !.explicit = 3, !.mention = 3]
          [] t = "select template 1" -> [NoSignal EXCEPT !.explicit = 1, !.mention = 1]
          [] t = "use template 2"    -> [NoSignal EXCEPT !.explicit = 2, !.mention = 2]
          [] t = "template 5"        -> [NoSignal EXCEPT !.mention = 5]
          [] t = "template #25"      -> [NoSignal EXCEPT !.mention = 25]
          [] t = "template 3"        -> [NoSignal EXCEPT !.mention = 3]
          [] t = "template 1"        -> [NoSignal EXCEPT !.mention = 1]
          [] t = "http://y.com/b.jpg" ->
               [NoSignal EXCEPT !.url = "http://y.com/b.jpg", !.urlKind = "absolute image"]
          [] t = "https://v.com/c.png?w=9" ->
               [NoSignal EXCEPT !.url = "https://v.com/c.png?w=9", !.urlKind = "absolute image"]
          [] t = "www.x.com/a.png" ->
               [NoSignal EXCEPT !.url = "www.x.com/a.png", !.urlKind = "www image"]
          [] t = "www.z.com/home" ->
               [NoSignal EXCEPT !.url = "www.z.com/home", !.urlKind = "www"]
          [] OTHER -> NoSignal ]

(***************************************************************************)
(* Texts: a message is a sequence of at most MaxPhrases different phrases, *)
(* in the order of Phrases.                                                *)
(***************************************************************************)
SeqsUpTo(S, n) == UNION { [1..k -> S] : k \in 0..n }

Increasing(ix) == \A i \in 1..(Len(ix) - 1) : ix[i] < ix[i + 1]

Messages ==
    { [i \in 1..Len(ix) |-> Phrases[ix[i]]] :
        ix \in { x \in SeqsUpTo(1..Len(Phrases), MaxPhrases) : Increasing(x) } }

MaxExtractPhrases == 3

\* the texts given to the extraction functions alone: the phrases in any order
ExtractTexts == SeqsUpTo(ExtractVocabulary, MaxExtractPhrases)

MaxMergePhrases == 2

\* the texts whose parameters are extracted and merged: the phrases in any order
MergeTexts == SeqsUpTo(MergeVocabulary, MaxMergePhrases)

\* the phrases of text in which pattern P finds a match, in text order
Matching(text, P(_)) == SelectSeq(text, LAMBDA t : P(PhraseTable[t]))

AnyPhrase(text, P(_)) == \E i \in 1..Len(text) : P(PhraseTable[text[i]])

(***************************************************************************)
(* extract_template_preference (nodes.py:13-40).  re.search returns the    *)
(* leftmost match, so only the first matching phrase is looked at.         *)
(***************************************************************************)
ThemeChoice(text) ==
    IF AnyPhrase(text, LAMBDA ph : 1 \in ph.theme) THEN 1
    ELSE IF AnyPhrase(text, LAMBDA ph : 2 \in ph.theme) THEN 2
    ELSE IF AnyPhrase(text, LAMBDA ph : 3 \in ph.theme) THEN 3
    ELSE 1

BareChoice(text) ==
    LET m == Matching(text, LAMBDA ph : ph.tplBare # NoDigit)
    IN  IF m # <<>> /\ PhraseTable[m[1]].tplBare \in 1..3
        THEN PhraseTable[m[1]].tplBare
        ELSE ThemeChoice(text)

extract_template_preference(text) ==
    LET m == Matching(text, LAMBDA ph : ph.tplExplicit # NoDigit)
    IN  IF m # <<>> /\ PhraseTable[m[1]].tplExplicit \in 1..3
        THEN PhraseTable[m[1]].tplExplicit
        ELSE BareChoice(text)

(***************************************************************************)
(* Price conversion (nodes.py:74-82, 92-99, 276-283):                      *)
(*   price = raw.replace(',', ''); "${:,}".format(int(float(price)))       *)
(* on tuples of characters.  float() accepts digits with at most one dot   *)
(* and at least one digit; int() truncates the fraction.                   *)
(***************************************************************************)
Digits == <<"0", "1", "2", "3", "4", "5", "6", "7", "8", "9">>

DigitValue(c) == (CHOOSE i \in 1..10 : Digits[i] = c) - 1

StripCommas(raw) == SelectSeq(raw, LAMBDA c : c # ",")

DotCount(s) == Cardinality({ i \in 1..Len(s) : s[i] = "." })

\* float(s) does not raise ValueError
FloatParses(s) == DotCount(s) <= 1 /\ Len(s) - DotCount(s) >= 1

\* the characters before the first dot
IntegerPart(s) ==
    IF DotCount(s) = 0 THEN s
    ELSE SubSeq(s, 1, (CHOOSE i \in 1..Len(s) :
                          s[i] = "." /\ \A j \in 1..(i - 1) : s[j] # ".") - 1)

RECURSIVE DigitsToInt(_)
DigitsToInt(s) ==
    IF s = <<>> THEN 0
    ELSE 10 * DigitsToInt(SubSeq(s, 1, Len(s) - 1)) + DigitValue(s[Len(s)])

RECURSIVE IntToDigits(_)
IntToDigits(n) ==
    IF n < 10 THEN <<Digits[n + 1]>>
    ELSE IntToDigits(n \div 10) \o <<Digits[(n % 10) + 1]>>

\* "{:,}".format: a comma before every group of three digits from the right
RECURSIVE GroupThousands(_)
GroupThousands(ds) ==
    IF Len(ds) <= 3 THEN ds
    ELSE GroupThousands(SubSeq(ds, 1, Len(ds) - 3)) \o <<",">>
             \o SubSeq(ds, Len(ds) - 2, Len(ds))

FormatPrice(raw) ==
    <<"$">> \o GroupThousands(IntToDigits(DigitsToInt(IntegerPart(StripCommas(raw)))))

\* the try/except of nodes.py:75-82 and 93-99: the raw text on ValueError
PriceOrRaw(raw) ==
    IF FloatParses(StripCommas(raw)) THEN FormatPrice(raw) ELSE <<"$">> \o raw

(***************************************************************************)
(* extract_template_params (nodes.py:43-239).                              *)
(***************************************************************************)
\* nodes.py:49-65: the three image URL rules, in order
ImageUrlParams(text) ==
    LET abs == Matching(text, LAMBDA ph : ph.urlAbsExt # NoText)
        www == Matching(text, LAMBDA ph : ph.urlWwwExt # NoText)
        any == Matching(text, LAMBDA ph : ph.urlWwwAny # NoText)
    IN  IF abs # <<>> THEN Entry("image_url", PhraseTable[abs[1]].urlAbsExt)
        ELSE IF www # <<>>
             THEN Entry("image_url", "https://" \o PhraseTable[www[1]].urlWwwExt)
        ELSE IF any # <<>>
             THEN Entry("image_url", "https://" \o PhraseTable[any[1]].urlWwwAny)
        ELSE EmptyParams

\* nodes.py:70-99: the modification phrase first, then "$X", then "price ... X"
\* the price rules with the bare "$amount" tried before the modification phrase
PriceParams_bare_amount_first(text) ==
    LET mod    == Matching(text, LAMBDA ph : ph.priceModTo # NoChars)
        dollar == Matching(text, LAMBDA ph : ph.priceDollar # NoChars)
        word   == Matching(text, LAMBDA ph : ph.priceWord # NoChars)
    IN  IF dollar # <<>>
        THEN Entry("property_price", PriceOrRaw(PhraseTable[dollar[1]].priceDollar))
        ELSE IF mod # <<>>
             THEN Entry("property_price", PriceOrRaw(PhraseTable[mod[1]].priceModTo))
        ELSE IF word # <<>>
             THEN Entry("property_price", PriceOrRaw(PhraseTable[word[1]].priceWord))
        ELSE EmptyParams

PriceParams(text) ==
    LET mod    == Matching(text, LAMBDA ph : ph.priceModTo # NoChars)
        dollar == Matching(text, LAMBDA ph : ph.priceDollar # NoChars)
        word   == Matching(text, LAMBDA ph : ph.priceWord # NoChars)
    IN  IF mod # <<>>
        THEN Entry("property_price", PriceOrRaw(PhraseTable[mod[1]].priceModTo))
        ELSE IF dollar # <<>>
             THEN Entry("property_price", PriceOrRaw(PhraseTable[dollar[1]].priceDollar))
        ELSE IF word # <<>>
             THEN Entry("property_price", PriceOrRaw(PhraseTable[word[1]].priceWord))
        ELSE EmptyParams

\* the dicts in maps applied one after the other with dict.update
RECURSIVE UpdateAll(_)
UpdateAll(maps) ==
    IF maps = <<>> THEN EmptyParams
    ELSE Update(UpdateAll(SubSeq(maps, 1, Len(maps) - 1)), maps[Len(maps)])

Reverse(s) == [i \in 1..Len(s) |-> s[Len(s) + 1 - i]]

PhraseMaps(text, F(_)) == [i \in 1..Len(text) |-> F(PhraseTable[text[i]])]

\* re.findall followed by a loop of assignments: the last match of a key stays
LastWins(text, F(_)) == UpdateAll(PhraseMaps(text, F))

\* one re.search per key: the first match of a key stays
FirstWins(text, F(_)) == UpdateAll(Reverse(PhraseMaps(text, F)))

\* nodes.py:119: phrase i holds "<element> color should be <color>"
ColorPhrase(text, i) == PhraseTable[text[i]].t1Color # EmptyParams

\* The element group [\w\s-]+ of nodes.py:119 runs across line ends.  The
\* match of phrase i starts at the phrase when the text starts there, when the
\* character before the line end is none of the group's, or when the match of
\* the phrase before ended at that line end.
StartsClean(text, i) ==
    \/ i = 1
    \/ ~PhraseTable[text[i - 1]].wordEnd
    \/ ColorPhrase(text, i - 1) /\ ~PhraseTable[text[i - 1]].plain

\* The group is greedy: it reaches to the last "color should be" that only
\* characters of the group separate from phrase i.
Chained(text, i) ==
    /\ PhraseTable[text[i]].plain
    /\ \E k \in (i + 1)..Len(text) :
          /\ ColorPhrase(text, k)
          /\ \A m \in (i + 1)..(k - 1) : PhraseTable[text[m]].plain

\* nodes.py:119-135: re.findall, then a loop of assignments; a match sets a
\* key only when its element, stripped, is the element's name alone
ColorShouldBe(text) ==
    UpdateAll([i \in 1..Len(text) |->
                 IF ColorPhrase(text, i) /\ StartsClean(text, i) /\ ~Chained(text, i)
                 THEN PhraseTable[text[i]].t1Color
                 ELSE EmptyParams])

\* nodes.py:138-151, in the dict's order
ColorAdjectives ==
    << "yellow", "red", "blue", "green", "black", "white",
       "purple", "orange", "pink", "brown", "gray", "gold" >>

ColorHex(adj) ==
    CASE adj = "yellow" -> "#FFD700" [] adj = "red"    -> "#FF0000"
      [] adj = "blue"   -> "#0000FF" [] adj = "green"  -> "#00FF00"
      [] adj = "black"  -> "#000000" [] adj = "white"  -> "#FFFFFF"
      [] adj = "purple" -> "#800080" [] adj = "orange" -> "#FFA500"
      [] adj = "pink"   -> "#FFC0CB" [] adj = "brown"  -> "#A52A2A"
      [] adj = "gray"   -> "#808080" [] adj = "gold"   -> "#FFD700"

\* nodes.py:153-165: the loop runs over the adjectives in the dict's order and
\* tests the whole text, so for one element the last adjective of the dict stays
AdjectiveParams(text) ==
    LET found(k) == { a \in 1..Len(ColorAdjectives) :
                        AnyPhrase(text, LAMBDA ph : k \in DOMAIN ph.t1Adj
                                       /\ ph.t1Adj[k] = ColorAdjectives[a]) }
        keys == UNION { DOMAIN PhraseTable[text[i]].t1Adj : i \in 1..Len(text) }
    IN  [k \in keys |->
            ColorHex(ColorAdjectives[CHOOSE a \in found(k) :
                                        \A b \in found(k) : b <= a])]

\* extract_template_params with the "color should be" rule after the adjectives
extract_template_params_explicit_last(text, template_version) ==
    LET image == ImageUrlParams(text)
    IN  CASE template_version = 1 ->
               Update(Update(Update(Update(image, PriceParams(text)),
                                    LastWins(text, LAMBDA ph : ph.t1Text)),
                             AdjectiveParams(text)),
                      ColorShouldBe(text))
          [] template_version = 2 ->
               Update(image, FirstWins(text, LAMBDA ph : ph.t2Fields))
          [] template_version = 3 ->
               Update(image, FirstWins(text, LAMBDA ph : ph.t3Fields))
          [] OTHER -> image

\* nodes.py:43-239
extract_template_params(text, template_version) ==
    LET image == ImageUrlParams(text)
    IN  CASE template_version = 1 ->
               Update(Update(Update(Update(image, PriceParams(text)),
                                    LastWins(text, LAMBDA ph : ph.t1Text)),
                             ColorShouldBe(text)),
                      AdjectiveParams(text))
          [] template_version = 2 ->
               Update(image, FirstWins(text, LAMBDA ph : ph.t2Fields))
          [] template_version = 3 ->
               Update(image, FirstWins(text, LAMBDA ph : ph.t3Fields))
          [] OTHER -> image

(***************************************************************************)
(* Session state (state.py:5-44).  Python's None is the record None; a     *)
(* dict is a function from its keys.                                       *)
(***************************************************************************)
None == [none |-> TRUE]

Keys(d) == IF d = None THEN {} ELSE DOMAIN d

\* Python truthiness of an Optional[Dict]
Truthy(d) == d # None /\ d # EmptyParams

Append1(state, m) == [state EXCEPT !.messages = Append(@, m)]

get_initial_state ==
    [ messages          |-> <<"system:assistant">>,
      status            |-> "WAITING_FOR_USER",
      template_params   |-> None,
      generation_result |-> None,
      template_version  |-> 1,
      force_generation  |-> FALSE ]

\* state.py:5-24, 39, 42: the values of status and of template_version
StateTypes(s) ==
    /\ s.template_version \in 1..3
    /\ s.status \in {"WAITING_FOR_USER", "COLLECTING_INFO",
                     "READY_TO_GENERATE", "TEMPLATE_GENERATED"}

\* state.py:39-40: neither value of the initial state is left
MessageProcessed(s) == s.template_params # None /\ s.status # "WAITING_FOR_USER"

\* the text of the last HumanMessage of the history is the request's prompt
HasHuman(state) == \E i \in 1..Len(state.messages) : state.messages[i] = "human"

(***************************************************************************)
(* user_turn (nodes.py:242-345), on the prompt text.                       *)
(***************************************************************************)
\* user_turn's switch without the reset of template_params
SwitchTemplate_keeping_params(state, text) ==
    LET template_preference == extract_template_preference(text)
    IN  IF template_preference # state.template_version
        THEN [state EXCEPT !.template_version = template_preference,
                           !.status = "COLLECTING_INFO"]
        ELSE state

\* nodes.py:251-258
SwitchTemplate(state, text) ==
    LET template_preference == extract_template_preference(text)
    IN  IF template_preference # state.template_version
        THEN [state EXCEPT !.template_version = template_preference,
                           !.template_params = EmptyParams,
                           !.status = "COLLECTING_INFO"]
        ELSE state

\* nodes.py:272-275
PriceModification(text, template_version) ==
    template_version = 1 /\ AnyPhrase(text, LAMBDA ph : ph.priceModAny # NoChars)

\* nodes.py:264-283: the extraction, then the direct price modification on top
ExtractedParams(text, template_version) ==
    LET extracted == extract_template_params(text, template_version)
        mod == Matching(text, LAMBDA ph : ph.priceModAny # NoChars)
        raw == PhraseTable[mod[1]].priceModAny
    IN  IF PriceModification(text, template_version) /\ FloatParses(StripCommas(raw))
        THEN Update(extracted, Entry("property_price", FormatPrice(raw)))
        ELSE extracted

\* nodes.py:291-298
ParamsChanged(previous_params, extracted_params) ==
    \E key \in DOMAIN extracted_params :
        key \in DOMAIN previous_params /\ previous_params[key] # extracted_params[key]

\* nodes.py:301-306
IsRegenerationRequest(text) == AnyPhrase(text, LAMBDA ph : ph.kwRegen)
IsUrlRequest(text) == AnyPhrase(text, LAMBDA ph : ph.kwUrl)

\* nodes.py:313-315
ForceCondition(text, params_changed, status, price_modification) ==
    \/ (IsRegenerationRequest(text) \/ IsUrlRequest(text)) /\ params_changed
    \/ params_changed /\ status \in {"READY_TO_GENERATE", "TEMPLATE_GENERATED"}
    \/ price_modification

\* nodes.py:360-367
RequiredParams(template_version) ==
    IF template_version = 1 THEN {"image_url", "property_price"} ELSE {"image_url"}

\* the flag of nodes.py:321-343 set on a request for the URL as well
ReadyForce_on_url_request(text, template_version, price_modification) ==
    IF template_version = 1
    THEN IsRegenerationRequest(text) \/ IsUrlRequest(text) \/ price_modification
    ELSE template_version \in {2, 3} /\ (IsRegenerationRequest(text) \/ IsUrlRequest(text))

\* nodes.py:321-343
\* the flag set together with READY_TO_GENERATE
ReadyForce(text, template_version, price_modification) ==
    IF template_version = 1
    THEN IsRegenerationRequest(text) \/ price_modification
    ELSE template_version \in {2, 3} /\ IsRegenerationRequest(text)

\* the status update with an else branch that sets COLLECTING_INFO
UpdateStatus_collecting_otherwise(state, text, price_modification) ==
    IF RequiredParams(state.template_version) \subseteq Keys(state.template_params)
    THEN [state EXCEPT
            !.status = "READY_TO_GENERATE",
            !.force_generation =
                @ \/ ReadyForce(text, state.template_version, price_modification)]
    ELSE [state EXCEPT !.status = "COLLECTING_INFO"]

\* nodes.py:321-343
UpdateStatus(state, text, price_modification) ==
    IF RequiredParams(state.template_version) \subseteq Keys(state.template_params)
    THEN [state EXCEPT
            !.status = "READY_TO_GENERATE",
            !.force_generation =
                @ \/ ReadyForce(text, state.template_version, price_modification)]
    ELSE state

\* nodes.py:308-319
SetForce(s2, text, params_changed, price_modification) ==
    IF ForceCondition(text, params_changed, s2.status, price_modification)
    THEN [s2 EXCEPT !.force_generation = TRUE, !.generation_result = None]
    ELSE s2

\* the merge replacing the stored dict by the extracted one
MergeExtracted_replacing(template_params, extracted_params) == extracted_params

\* the merge with "+=" in place of the assignment for the keys already stored
MergeExtracted_appending_values(template_params, extracted_params) ==
    IF template_params = None THEN extracted_params
    ELSE [k \in (DOMAIN template_params) \cup (DOMAIN extracted_params) |->
            IF k \notin DOMAIN extracted_params THEN template_params[k]
            ELSE IF k \notin DOMAIN template_params THEN extracted_params[k]
            ELSE template_params[k] \o extracted_params[k]]

\* the merge leaving None in place when nothing was extracted
MergeExtracted_none_when_nothing_extracted(template_params, extracted_params) ==
    IF template_params = None
    THEN IF extracted_params = EmptyParams THEN None ELSE extracted_params
    ELSE Update(template_params, extracted_params)

\* nodes.py:285-289
MergeExtracted(template_params, extracted_params) ==
    IF template_params = None THEN extracted_params
    ELSE Update(template_params, extracted_params)

\* nodes.py:285-298
MergeParams(s1, text, extracted_params, price_modification) ==
    LET previous_params ==
            IF Truthy(s1.template_params) THEN s1.template_params ELSE EmptyParams
    IN  SetForce([s1 EXCEPT !.template_params = MergeExtracted(@, extracted_params)],
                 text, ParamsChanged(previous_params, extracted_params),
                 price_modification)

\* nodes.py:260-343
AfterSwitch(s1, text) ==
    UpdateStatus(MergeParams(s1, text, ExtractedParams(text, s1.template_version),
                             PriceModification(text, s1.template_version)),
                 text, PriceModification(text, s1.template_version))

user_turn(state, text) ==
    IF ~HasHuman(state) THEN state ELSE AfterSwitch(SwitchTemplate(state, text), text)

(***************************************************************************)
(* check_requirements (nodes.py:348-376) and the routing after it          *)
(* (agents/__init__.py:31-43).                                             *)
(***************************************************************************)
\* check_requirements asking for image_url alone, whatever the template
check_requirements_image_only(state) ==
    IF state.template_params = None
    THEN [state EXCEPT !.status = "COLLECTING_INFO"]
    ELSE IF state.force_generation
    THEN [state EXCEPT !.status = "READY_TO_GENERATE"]
    ELSE IF {"image_url"} \subseteq DOMAIN state.template_params
    THEN [state EXCEPT !.status = "READY_TO_GENERATE"]
    ELSE [state EXCEPT !.status = "COLLECTING_INFO"]

\* check_requirements emptying the parameters when a required one is missing
check_requirements_resetting_params(state) ==
    IF state.template_params = None
    THEN [state EXCEPT !.status = "COLLECTING_INFO"]
    ELSE IF state.force_generation
    THEN [state EXCEPT !.status = "READY_TO_GENERATE"]
    ELSE IF RequiredParams(state.template_version) \subseteq DOMAIN state.template_params
    THEN [state EXCEPT !.status = "READY_TO_GENERATE"]
    ELSE [state EXCEPT !.status = "COLLECTING_INFO", !.template_params = EmptyParams]

\* check_requirements clearing the force flag when it takes the short-circuit
check_requirements_consuming_flag(state) ==
    IF state.template_params = None
    THEN [state EXCEPT !.status = "COLLECTING_INFO"]
    ELSE IF state.force_generation
    THEN [state EXCEPT !.status = "READY_TO_GENERATE", !.force_generation = FALSE]
    ELSE IF RequiredParams(state.template_version) \subseteq DOMAIN state.template_params
    THEN [state EXCEPT !.status = "READY_TO_GENERATE"]
    ELSE [state EXCEPT !.status = "COLLECTING_INFO"]

\* nodes.py:348-376
check_requirements(state) ==
    IF state.template_params = None
    THEN [state EXCEPT !.status = "COLLECTING_INFO"]
    ELSE IF state.force_generation
    THEN [state EXCEPT !.status = "READY_TO_GENERATE"]
    ELSE IF RequiredParams(state.template_version) \subseteq DOMAIN state.template_params
    THEN [state EXCEPT !.status = "READY_TO_GENERATE"]
    ELSE [state EXCEPT !.status = "COLLECTING_INFO"]

RouteAfterCheck(state) ==
    IF state.status = "READY_TO_GENERATE" \/ state.force_generation
    THEN "generate_template"
    ELSE "ai_turn"

(***************************************************************************)
(* generate_template (nodes.py:498-555).  outcome is what the call of the  *)
(* rendering tool does: it returns a result with a url ("ok"), a result    *)
(* without one ("no_url"), or raises ("error", or "validation_error" when  *)
(* the exception text names a validation error of image_url).              *)
(***************************************************************************)
RenderOutcomes == {"ok", "no_url", "error", "validation_error"}

\* nodes.py:506
HasImageUrl(template_params) ==
    "image_url" \in Keys(template_params) /\ template_params["image_url"] # NoText

\* nodes.py:521, 529: the arguments the rendering tool is invoked with
RenderCall(state) ==
    [ template_version |-> state.template_version,
      params           |-> state.template_params ]

\* the dict the tool returns (template_renderer.py:149-151)
RenderResult(outcome) ==
    [ status |-> "success",
      url    |-> IF outcome = "ok" THEN "https://render/poster.jpg" ELSE NoText ]

\* generate_template without the image_url test of nodes.py:506
generate_template_without_precondition(state, outcome) ==
    IF outcome \in {"ok", "no_url"}
    THEN [state EXCEPT !.generation_result = RenderResult(outcome),
                       !.status = "TEMPLATE_GENERATED"]
    ELSE IF outcome = "validation_error"
    THEN [Append1(state, "system:image_url_required") EXCEPT !.status = "COLLECTING_INFO"]
    ELSE [Append1(state, "system:generation_error") EXCEPT !.status = "COLLECTING_INFO"]

\* generate_template reporting TEMPLATE_GENERATED when the rendering tool raises
generate_template_generated_on_failure(state, outcome) ==
    IF ~HasImageUrl(state.template_params)
    THEN [Append1(state, "system:missing_image_url") EXCEPT !.status = "COLLECTING_INFO"]
    ELSE IF outcome \in {"ok", "no_url"}
    THEN [state EXCEPT !.generation_result = RenderResult(outcome),
                       !.status = "TEMPLATE_GENERATED"]
    ELSE IF outcome = "validation_error"
    THEN [Append1(state, "system:image_url_required") EXCEPT !.status = "TEMPLATE_GENERATED"]
    ELSE [Append1(state, "system:generation_error") EXCEPT !.status = "TEMPLATE_GENERATED"]

\* generate_template dropping the collected parameters when the tool raises
generate_template_dropping_params_on_failure(state, outcome) ==
    IF ~HasImageUrl(state.template_params)
    THEN [Append1(state, "system:missing_image_url") EXCEPT !.status = "COLLECTING_INFO"]
    ELSE IF outcome \in {"ok", "no_url"}
    THEN [state EXCEPT !.generation_result = RenderResult(outcome),
                       !.status = "TEMPLATE_GENERATED"]
    ELSE IF outcome = "validation_error"
    THEN [Append1(state, "system:image_url_required") EXCEPT !.status = "COLLECTING_INFO",
                                                             !.template_params = None]
    ELSE [Append1(state, "system:generation_error") EXCEPT !.status = "COLLECTING_INFO",
                                                           !.template_params = None]

\* generate_template keeping the result of an earlier generation
generate_template_keeping_earlier_result(state, outcome) ==
    IF ~HasImageUrl(state.template_params)
    THEN [Append1(state, "system:missing_image_url") EXCEPT !.status = "COLLECTING_INFO"]
    ELSE IF outcome \in {"ok", "no_url"}
    THEN [state EXCEPT !.generation_result = IF @ = None THEN RenderResult(outcome) ELSE @,
                       !.status = "TEMPLATE_GENERATED"]
    ELSE IF outcome = "validation_error"
    THEN [Append1(state, "system:image_url_required") EXCEPT !.status = "COLLECTING_INFO"]
    ELSE [Append1(state, "system:generation_error") EXCEPT !.status = "COLLECTING_INFO"]

\* generate_template leaving the status as it was when image_url is missing
generate_template_leaving_status_without_image(state, outcome) ==
    IF ~HasImageUrl(state.template_params)
    THEN Append1(state, "system:missing_image_url")
    ELSE IF outcome \in {"ok", "no_url"}
    THEN [state EXCEPT !.generation_result = RenderResult(outcome),
                       !.status = "TEMPLATE_GENERATED"]
    ELSE IF outcome = "validation_error"
    THEN [Append1(state, "system:image_url_required") EXCEPT !.status = "COLLECTING_INFO"]
    ELSE [Append1(state, "system:generation_error") EXCEPT !.status = "COLLECTING_INFO"]

\* generate_template storing what the failed call left as the result
generate_template_storing_failure(state, outcome) ==
    IF ~HasImageUrl(state.template_params)
    THEN [Append1(state, "system:missing_image_url") EXCEPT !.status = "COLLECTING_INFO"]
    ELSE IF outcome \in {"ok", "no_url"}
    THEN [state EXCEPT !.generation_result = RenderResult(outcome),
                       !.status = "TEMPLATE_GENERATED"]
    ELSE IF outcome = "validation_error"
    THEN [Append1(state, "system:image_url_required") EXCEPT
            !.status = "COLLECTING_INFO",
            !.generation_result = [status |-> "error", url |-> NoText]]
    ELSE [Append1(state, "system:generation_error") EXCEPT
            !.status = "COLLECTING_INFO",
            !.generation_result = [status |-> "error", url |-> NoText]]

\* nodes.py:498-555
generate_template(state, outcome) ==
    IF ~HasImageUrl(state.template_params)
    THEN [Append1(state, "system:missing_image_url") EXCEPT !.status = "COLLECTING_INFO"]
    ELSE IF outcome \in {"ok", "no_url"}
    THEN [state EXCEPT !.generation_result = RenderResult(outcome),
                       !.status = "TEMPLATE_GENERATED"]
    ELSE IF outcome = "validation_error"
    THEN [Append1(state, "system:image_url_required") EXCEPT !.status = "COLLECTING_INFO"]
    ELSE [Append1(state, "system:generation_error") EXCEPT !.status = "COLLECTING_INFO"]

\* the rendering tool is invoked (nodes.py:529) iff the image_url test passed
RendersOf(state) == IF HasImageUrl(state.template_params) THEN <<RenderCall(state)>> ELSE <<>>

HasUrl(result) == result # None /\ result.url # NoText

(***************************************************************************)
(* The rendering tool (tools.py:8-157) and the template structures         *)
(* (template_renderer.py:42-83).  A layer map is a function from layer     *)
(* names to dicts of fields; args is the dict generate_template invokes    *)
(* the tool with (nodes.py:503, 521, 529), without template_version.       *)
(***************************************************************************)
TextLayer(text, color) == [text |-> text, color |-> color]

\* template_renderer.py:42-83
get_template_structure(template_version) ==
    CASE template_version = 1 ->
           [ layer \in { "image-1", "bg-website", "website", "shape-bg", "modern", "home",
                         "for sale", "start from", "price", "button-cta" } |->
               CASE layer = "image-1"    -> Entry("image_url", "")
                 [] layer = "website"    -> TextLayer("www.house4you.com", "#FFFFFF")
                 [] layer = "modern"     -> TextLayer("MODERN", "rgb(171, 102, 49)")
                 [] layer = "home"       -> TextLayer("HOME", "rgb(59, 59, 59)")
                 [] layer = "for sale"   -> TextLayer("FOR SALE", "rgb(59, 59, 59)")
                 [] layer = "start from" -> TextLayer("START FROM", "rgb(59, 59, 59)")
                 [] layer = "price"      -> TextLayer(<<"$", "0">>, "rgb(59, 59, 59)")
                 [] layer = "button-cta" -> TextLayer("BUY NOW", "rgb(228, 228, 222)")
                 [] OTHER                -> EmptyParams ]
      [] template_version = 2 ->
           [ layer \in { "image-1", "shape-1", "shape-2", "text-1", "text-1-copy",
                         "text-1-copy-copy", "shape-3", "text-1-copy-copy-copy" } |->
               CASE layer = "image-1" -> Entry("image_url", "")
                 [] layer = "text-1"  -> TextLayer("HOUSE AGENT", "#FFFFFF")
                 [] layer = "text-1-copy" ->
                      TextLayer("modern | beautiful | technology", "#FFFFFF")
                 [] layer = "text-1-copy-copy" ->
                      TextLayer("FOR MORE INFORMATION", "rgb(105, 99, 65)")
                 [] layer = "text-1-copy-copy-copy" ->
                      TextLayer("+123 456 7890 | www.lovehouse.com", "rgb(105, 99, 65)")
                 [] OTHER -> EmptyParams ]
      [] template_version = 3 ->
           [ layer \in { "image-top", "photo-1", "photo-2", "photo-3", "shape-1", "title-1",
                         "title-2", "button-cta", "info", "website" } |->
               CASE layer \in {"image-top", "photo-1", "photo-2", "photo-3"} ->
                      Entry("image_url", "")
                 [] layer = "title-1"    -> TextLayer("THE BEST HOME", "rgb(239, 233, 226)")
                 [] layer = "title-2"    -> TextLayer("FOR SALE", "rgb(239, 233, 226)")
                 [] layer = "button-cta" -> TextLayer("I WANT", "rgb(255, 255, 255)")
                 [] layer = "info" ->
                      TextLayer("For more info, contact us", "rgb(126, 103, 76)")
                 [] layer = "website"    -> TextLayer("www.housesforyou.com", "rgb(0, 0, 0)")
                 [] OTHER                -> EmptyParams ]

\* template_data[layer][field] = value
SetField(template_data, layer, field, value) ==
    [template_data EXCEPT ![layer] = Update(@, Entry(field, value))]

\* "if <argument>:" of tools.py:66-143: the argument was passed and is not empty
Given(args, k) ==
    /\ k \in DOMAIN args
    /\ IF k = "property_price" THEN args[k] # NoChars ELSE args[k] # NoText

\* tools.py:66-94, 101-116, 127-144: the argument, the layer and the field of
\* each "if <argument>: template_data[layer][field] = <argument>", in order
LayerFields(template_version) ==
    CASE template_version = 1 ->
           << <<"property_price", "price", "text">>,
              <<"modern_text", "modern", "text">>,
              <<"home_text", "home", "text">>,
              <<"for_sale_text", "for sale", "text">>,
              <<"start_from_text", "start from", "text">>,
              <<"cta_text", "button-cta", "text">>,
              <<"website_text", "website", "text">>,
              <<"modern_color", "modern", "color">>,
              <<"home_color", "home", "color">>,
              <<"for_sale_color", "for sale", "color">>,
              <<"start_from_color", "start from", "color">>,
              <<"price_color", "price", "color">>,
              <<"cta_color", "button-cta", "color">>,
              <<"website_color", "website", "color">> >>
      [] template_version = 2 ->
           << <<"house_agent_text", "text-1", "text">>,
              <<"tagline_text", "text-1-copy", "text">>,
              <<"info_header_text", "text-1-copy-copy", "text">>,
              <<"contact_info_text", "text-1-copy-copy-copy", "text">>,
              <<"text_1_color", "text-1", "color">>,
              <<"text_1_copy_color", "text-1-copy", "color">>,
              <<"text_1_copy_copy_color", "text-1-copy-copy", "color">>,
              <<"text_1_copy_copy_copy_color", "text-1-copy-copy-copy", "color">> >>
      [] template_version = 3 ->
           << <<"title_1_text", "title-1", "text">>,
              <<"title_2_text", "title-2", "text">>,
              <<"cta_button_text", "button-cta", "text">>,
              <<"info_text", "info", "text">>,
              <<"template3_website_text", "website", "text">>,
              <<"title_1_color", "title-1", "color">>,
              <<"title_2_color", "title-2", "color">>,
              <<"info_color", "info", "color">>,
              <<"template3_website_color", "website", "color">> >>

RECURSIVE ApplyFields(_, _, _)
ApplyFields(template_data, args, fields) ==
    IF fields = <<>> THEN template_data
    ELSE LET f == fields[Len(fields)]
         IN  IF Given(args, f[1])
             THEN SetField(ApplyFields(template_data, args, SubSeq(fields, 1, Len(fields) - 1)),
                           f[2], f[3], args[f[1]])
             ELSE ApplyFields(template_data, args, SubSeq(fields, 1, Len(fields) - 1))

\* tools.py:123-125: secondary_image_urlN or image_url
PhotoUrl(args, k) == IF Given(args, k) THEN args[k] ELSE args["image_url"]

\* tools.py:64, 99, 120-125: the image layers
ImageLayers(template_data, template_version, args) ==
    IF template_version \in {1, 2}
    THEN SetField(template_data, "image-1", "image_url", args["image_url"])
    ELSE SetField(SetField(SetField(SetField(template_data,
                 "image-top", "image_url", args["image_url"]),
                 "photo-1", "image_url", PhotoUrl(args, "secondary_image_url1")),
                 "photo-2", "image_url", PhotoUrl(args, "secondary_image_url2")),
                 "photo-3", "image_url", PhotoUrl(args, "secondary_image_url3"))

\* tools.py:51-145: the layers handed to render_template, which sends them to
\* the rendering service (template_renderer.py:138-145)
LayerMap(template_version, args) ==
    ApplyFields(ImageLayers(get_template_structure(template_version), template_version, args),
                args, LayerFields(template_version))

(***************************************************************************)
(* chat_endpoint before the graph runs (app.py:117-220).                   *)
(***************************************************************************)
\* ChatRequest.template_version absent (app.py:53); Python treats 0 alike
NoHint == 0

\* hints a request may carry: none, the three templates, one out of range
Hints == {NoHint, 1, 2, 3, 4}

\* app.py:61-102: customizable_elements of each template (the required ones are in it)
Schema(template_version) ==
    CASE template_version = 1 ->
           { "image_url", "property_price", "modern_text", "home_text",
             "for_sale_text", "start_from_text", "cta_text", "website_text",
             "modern_color", "home_color", "for_sale_color", "start_from_color",
             "price_color", "cta_color", "website_color" }
      [] template_version = 2 ->
           { "image_url", "house_agent_text", "tagline_text", "info_header_text",
             "contact_info_text", "text_1_color", "text_1_copy_color",
             "text_1_copy_copy_color", "text_1_copy_copy_copy_color" }
      [] template_version = 3 ->
           { "image_url", "secondary_image_url1", "secondary_image_url2",
             "secondary_image_url3", "title_1_text", "title_2_text",
             "cta_button_text", "info_text", "template3_website_text",
             "title_1_color", "title_2_color", "info_color",
             "template3_website_color" }
      [] OTHER -> {}

\* app.py:126-130
NewSession == Append1(get_initial_state, "system:welcome")

\* app.py:135-136
RequestedTemplate(text, hint) ==
    IF hint # NoHint THEN hint ELSE extract_template_preference(text)

\* app.py:140
TemplateSwitched(state, text, hint) ==
    LET requested_template == RequestedTemplate(text, hint)
    IN  requested_template \in 1..3 /\ state.template_version # requested_template

\* the switch of app.py:141-164 starting the history of the session anew
ApiSwitch_with_fresh_history(state, text, hint) ==
    IF TemplateSwitched(state, text, hint)
    THEN Append1([state EXCEPT
                    !.messages = get_initial_state.messages,
                    !.template_version = RequestedTemplate(text, hint),
                    !.template_params =
                        IF Truthy(state.template_params) /\ HasImageUrl(state.template_params)
                        THEN Entry("image_url", state.template_params["image_url"])
                        ELSE EmptyParams,
                    !.status = "COLLECTING_INFO",
                    !.generation_result = None,
                    !.force_generation = TRUE],
                 "system:template_switched")
    ELSE state

\* app.py:141-164
ApiSwitch(state, text, hint) ==
    IF TemplateSwitched(state, text, hint)
    THEN Append1([state EXCEPT
                    !.template_version = RequestedTemplate(text, hint),
                    !.template_params =
                        IF Truthy(state.template_params) /\ HasImageUrl(state.template_params)
                        THEN Entry("image_url", state.template_params["image_url"])
                        ELSE EmptyParams,
                    !.status = "COLLECTING_INFO",
                    !.generation_result = None,
                    !.force_generation = TRUE],
                 "system:template_switched")
    ELSE state

\* app.py:171-176
IsGenerationRequest(text) == AnyPhrase(text, LAMBDA ph : ph.kwGen)

\* app.py:179
ApiGenerates(state, text, template_switched) ==
    \/ (IsGenerationRequest(text) \/ IsUrlRequest(text)) /\ state.status = "READY_TO_GENERATE"
    \/ template_switched

\* app.py:180-209: the explicit generate_template call and what follows it;
\* generate_template raises on template_params None (nodes.py:503)
ApiGenerate(state, outcome) ==
    LET s1 == Append1(state, "system:generation_requested")
        s2 == generate_template(s1, outcome)
    IN  IF s1.template_params = None
        THEN Append1(s1, "system:generation_exception")
        ELSE IF HasUrl(s2.generation_result)
        THEN Append1([s2 EXCEPT !.status = "TEMPLATE_GENERATED"], "system:generated_url")
        ELSE Append1(s2, "system:no_url_returned")

\* app.py:134-220: the state handed to the graph
ApiLayer(state, text, hint, outcome) ==
    LET template_switched == TemplateSwitched(state, text, hint)
        s1 == Append1(ApiSwitch(state, text, hint), "human")
    IN  IF ApiGenerates(s1, text, template_switched)
        THEN ApiGenerate(s1, outcome)
        ELSE IF IsUrlRequest(text) /\ HasUrl(s1.generation_result)
        THEN Append1(s1, "system:poster_url")
        ELSE s1

\* the render calls of the API layer (app.py:185)
ApiRenders(state, text, hint) ==
    LET template_switched == TemplateSwitched(state, text, hint)
        s1 == Append1(ApiSwitch(state, text, hint), "human")
    IN  IF ApiGenerates(s1, text, template_switched) /\ s1.template_params # None
        THEN RendersOf(s1)
        ELSE <<>>

(***************************************************************************)
(* The system: the process-wide session map and the one request in flight. *)
(* chat_endpoint is an async function that never awaits, so a request runs *)
(* to its end before the event loop starts the next one.                   *)
(***************************************************************************)
SessionIds == {"s1"}

VARIABLES
    sessions,     \* app.py:47: session id -> state, None when the id is unknown
    pc,           \* where the request in flight stands
    req,          \* the ChatRequest in flight
    state,        \* the state the graph nodes work on
    start,        \* the session's state when the request arrived
    pre,          \* the state before the step that ran last
    ran,          \* the step that ran last
    renderCalls,  \* the invocations of the rendering tool by this request
    outcomes,     \* what each of these invocations did, in the same order
    waiting,      \* the requests that have arrived and that the loop has not started
    suspended     \* the requests that the loop has started and that await

vars == <<sessions, pc, req, state, start, pre, ran, renderCalls, outcomes,
          waiting, suspended>>

NoRequest == [session_id |-> "", user_prompt |-> <<>>, template_version |-> NoHint]

\* the entries of a history that came before the request in flight
Older(s) == [s EXCEPT !.messages = <<>>]

Init ==
    /\ sessions = [sid \in SessionIds |-> None]
    /\ pc = "idle"
    /\ req = NoRequest
    /\ state = None
    /\ start = None
    /\ pre = None
    /\ ran = ""
    /\ renderCalls = <<>>
    /\ outcomes = <<>>
    /\ waiting = {}
    /\ suspended = {}

\* app.py:134-220: the API layer runs on the state s0 of the session
BeginFrom(s0, sid, text, hint, outcome) ==
    /\ req' = [session_id |-> sid, user_prompt |-> text, template_version |-> hint]
    /\ start' = s0
    /\ pre' = s0
    /\ state' = ApiLayer(s0, text, hint, outcome)
    /\ sessions' = [sessions EXCEPT ![sid] = state']
    /\ renderCalls' = ApiRenders(s0, text, hint)
    /\ outcomes' = IF renderCalls' # <<>> THEN <<outcome>> ELSE <<>>
    /\ ran' = "chat_endpoint"
    /\ pc' = "user_turn"

\* app.py:117-132: the session is read, or created when the id is unknown
Begin(sid, text, hint, outcome) ==
    BeginFrom(IF sessions[sid] # None THEN sessions[sid] ELSE NewSession,
              sid, text, hint, outcome)

\* app.py:117-220
ChatEndpoint ==
    /\ pc = "idle"
    /\ \E sid \in SessionIds, text \in Messages, hint \in Hints, outcome \in RenderOutcomes :
         Begin(sid, text, hint, outcome)
    /\ UNCHANGED <<waiting, suspended>>

\* one messages list shared by the states of all the sessions
ShareMessages_across_sessions(s) ==
    [sid \in DOMAIN sessions |->
        IF sessions[sid] = None THEN None ELSE [sessions[sid] EXCEPT !.messages = s.messages]]

\* the graph's nodes get the objects of the stored state: what a node appends
\* to messages shows in the stored state too
ShareMessages(s) == [sessions EXCEPT ![req.session_id].messages = s.messages]

\* agents/__init__.py:27-28, nodes.py:242-345
UserTurn ==
    /\ pc = "user_turn"
    /\ pre' = state
    /\ state' = user_turn(state, req.user_prompt)
    \* nodes.py:289 updates the stored dict in place unless 257 or 287 replaced it
    /\ sessions' =
         IF /\ HasHuman(state)
            /\ state.template_params # None
            /\ SwitchTemplate(state, req.user_prompt) = state
         THEN [sessions EXCEPT ![req.session_id].template_params =
                                    state'.template_params]
         ELSE sessions
    /\ ran' = "user_turn"
    /\ pc' = "check_requirements"
    /\ UNCHANGED <<req, start, renderCalls, outcomes, waiting, suspended>>

\* agents/__init__.py:31-43, nodes.py:348-376
CheckRequirements ==
    /\ pc = "check_requirements"
    /\ pre' = state
    /\ state' = check_requirements(state)
    /\ ran' = "check_requirements"
    /\ pc' = RouteAfterCheck(state')
    /\ UNCHANGED <<sessions, req, start, renderCalls, outcomes, waiting, suspended>>

\* agents/__init__.py:45, nodes.py:498-555
GenerateTemplate ==
    /\ pc = "generate_template"
    /\ \E outcome \in RenderOutcomes :
         /\ pre' = state
         /\ IF state.template_params = None
            THEN /\ pc' = "error"
                 /\ UNCHANGED <<state, sessions, renderCalls, outcomes>>
            ELSE /\ state' = generate_template(state, outcome)
                 /\ sessions' = ShareMessages(state')
                 /\ renderCalls' = renderCalls \o RendersOf(state)
                 /\ outcomes' = IF RendersOf(state) # <<>>
                                THEN Append(outcomes, outcome) ELSE outcomes
                 /\ pc' = "ai_turn"
    /\ ran' = "generate_template"
    /\ UNCHANGED <<req, start, waiting, suspended>>

\* agents/__init__.py:46, nodes.py:379-495: the model call answers or raises
AiTurn ==
    /\ pc = "ai_turn"
    /\ pre' = state
    /\ \/ /\ state' = Append1(state, "ai")
          /\ sessions' = ShareMessages(state')
          /\ pc' = "respond"
       \/ /\ pc' = "error"
          /\ UNCHANGED <<state, sessions>>
    /\ ran' = "ai_turn"
    /\ UNCHANGED <<req, start, renderCalls, outcomes, waiting, suspended>>

\* app.py:223-234
Respond ==
    /\ pc = "respond"
    /\ sessions' = [sessions EXCEPT ![req.session_id] = Older(state)]
    /\ pc' = "idle"
    /\ req' = NoRequest
    /\ state' = None
    /\ start' = None
    /\ pre' = None
    /\ ran' = ""
    /\ renderCalls' = <<>>
    /\ outcomes' = <<>>
    /\ UNCHANGED <<waiting, suspended>>

\* app.py:236-237
RaiseHttp500 ==
    /\ pc = "error"
    /\ pc' = "idle"
    /\ req' = NoRequest
    /\ state' = None
    /\ start' = None
    /\ pre' = None
    /\ ran' = ""
    /\ renderCalls' = <<>>
    /\ outcomes' = <<>>
    /\ UNCHANGED <<waiting, suspended>>
    /\ sessions' = [sessions EXCEPT ![req.session_id] = Older(@)]

Next ==
    \/ ChatEndpoint
    \/ UserTurn
    \/ CheckRequirements
    \/ GenerateTemplate
    \/ AiTurn
    \/ Respond
    \/ RaiseHttp500

Spec == Init /\ [][Next]_vars

(***************************************************************************)
(* The nodes invoked directly: one of user_turn, check_requirements and    *)
(* generate_template applied once to any AgentState over the values below. *)
(***************************************************************************)
NodeParams ==
    {None} \cup
    { UpdateAll(<<i, p, c>>) :
        i \in {EmptyParams, Entry("image_url", ""), Entry("image_url", "https://www.x.com/a.png")},
        p \in {EmptyParams, Entry("property_price", <<"$", "4", "5", "0", ",", "0", "0", "0">>)},
        c \in {EmptyParams, Entry("cta_color", "red")} }

NodeStates ==
    [ messages          : {<<>>, <<"human">>},
      status            : {"WAITING_FOR_USER", "COLLECTING_INFO",
                           "READY_TO_GENERATE", "TEMPLATE_GENERATED"},
      template_params   : NodeParams,
      generation_result : {None, RenderResult("ok")},
      template_version  : 1..3,
      force_generation  : BOOLEAN ]

InitNode ==
    /\ pc \in {"user_turn", "check_requirements", "generate_template"}
    /\ state \in NodeStates
    /\ req \in [session_id : SessionIds, user_prompt : Messages, template_version : {NoHint}]
    /\ pc # "user_turn" => req.user_prompt = <<>>
    /\ sessions = [sid \in SessionIds |-> state]
    /\ start = state
    /\ pre = None
    /\ ran = ""
    /\ renderCalls = <<>>
    /\ outcomes = <<>>
    /\ waiting = {}
    /\ suspended = {}

\* a node runs once on the state it is given
DirectUserTurn == ran = "" /\ UserTurn

DirectCheckRequirements == ran = "" /\ CheckRequirements

DirectGenerateTemplate == ran = "" /\ GenerateTemplate

NextNode == DirectUserTurn \/ DirectCheckRequirements \/ DirectGenerateTemplate

SpecNode == InitNode /\ [][NextNode]_vars

(***************************************************************************)
(* The event loop: requests for two sessions arrive concurrently, and the  *)
(* history is kept whole.  The loop runs one coroutine at a time and takes *)
(* another one only when the running one has returned or awaits.           *)
(* chat_endpoint (app.py:117-237) holds no await: the graph, the language  *)
(* model and the rendering service are all called synchronously.           *)
(***************************************************************************)
LoopSessionIds == {"s1", "s2"}

LoopMessages == {<<"use template 2">>, <<"www.x.com/a.png">>, <<"thanks">>}

MaxRequests == 3

\* chat_endpoint awaiting the language model call of ai_turn
AwaitPoints_at_model_call == {"ai_turn"}

\* the places of chat_endpoint at which the coroutine awaits
AwaitPoints == {}

\* the coroutine that is running, as the loop keeps it when it awaits
Running ==
    [ pc |-> pc, req |-> req, state |-> state, start |-> start, pre |-> pre,
      ran |-> ran, renderCalls |-> renderCalls, outcomes |-> outcomes ]

InitLoop ==
    /\ sessions = [sid \in LoopSessionIds |-> None]
    /\ pc = "idle"
    /\ req = NoRequest
    /\ state = None
    /\ start = None
    /\ pre = None
    /\ ran = ""
    /\ renderCalls = <<>>
    /\ outcomes = <<>>
    /\ \E batch \in [1..MaxRequests -> LoopSessionIds \X LoopMessages] :
         waiting = { [id |-> i, session_id |-> batch[i][1], user_prompt |-> batch[i][2]] :
                     i \in 1..MaxRequests }
    /\ suspended = {}

\* the loop starts a request that has arrived, or resumes one that awaited
EventLoop ==
    /\ pc \in AwaitPoints \cup {"idle"}
    /\ \/ /\ \E r \in waiting, outcome \in RenderOutcomes :
               /\ Begin(r.session_id, r.user_prompt, NoHint, outcome)
               /\ waiting' = waiting \ {r}
          /\ suspended' = IF pc = "idle" THEN suspended ELSE suspended \cup {Running}
       \/ /\ \E t \in suspended :
               /\ pc' = t.pc
               /\ req' = t.req
               /\ state' = t.state
               /\ start' = t.start
               /\ pre' = t.pre
               /\ ran' = t.ran
               /\ renderCalls' = t.renderCalls
               /\ outcomes' = t.outcomes
               /\ suspended' = IF pc = "idle" THEN suspended \ {t}
                                ELSE (suspended \ {t}) \cup {Running}
          /\ UNCHANGED <<sessions, waiting>>

\* app.py:223-234, the history kept whole
LoopRespond ==
    /\ pc = "respond"
    /\ sessions' = [sessions EXCEPT ![req.session_id] = state]
    /\ pc' = "idle"
    /\ req' = NoRequest
    /\ state' = None
    /\ start' = None
    /\ pre' = None
    /\ ran' = ""
    /\ renderCalls' = <<>>
    /\ outcomes' = <<>>
    /\ UNCHANGED <<waiting, suspended>>

\* app.py:236-237, the history kept whole
LoopRaiseHttp500 ==
    /\ pc = "error"
    /\ pc' = "idle"
    /\ req' = NoRequest
    /\ state' = None
    /\ start' = None
    /\ pre' = None
    /\ ran' = ""
    /\ renderCalls' = <<>>
    /\ outcomes' = <<>>
    /\ UNCHANGED <<sessions, waiting, suspended>>

NextLoop ==
    \/ EventLoop
    \/ UserTurn
    \/ CheckRequirements
    \/ GenerateTemplate
    \/ AiTurn
    \/ LoopRespond
    \/ LoopRaiseHttp500

SpecLoop == InitLoop /\ [][NextLoop]_vars


(***************************************************************************)
(* The extraction functions alone: extract_template_preference,            *)
(* extract_template_params and the extraction step of user_turn applied    *)
(* once to any text of ExtractTexts.  req holds the text, start the        *)
(* template version the parameters are extracted for, state the result.    *)
(***************************************************************************)
InitExtract ==
    /\ pc = "extract"
    /\ req \in [session_id : {""}, user_prompt : ExtractTexts, template_version : {NoHint}]
    /\ start \in [template_version : 1..3]
    /\ state = None
    /\ sessions = [sid \in SessionIds |-> None]
    /\ pre = None
    /\ ran = ""
    /\ renderCalls = <<>>
    /\ outcomes = <<>>
    /\ waiting = {}
    /\ suspended = {}

\* nodes.py:13-40
ExtractTemplatePreference ==
    /\ pc = "extract"
    /\ state' = [result |-> extract_template_preference(req.user_prompt)]
    /\ ran' = "extract_template_preference"
    /\ pc' = "extracted"
    /\ UNCHANGED <<sessions, req, start, pre, renderCalls, outcomes, waiting, suspended>>

\* nodes.py:43-239
ExtractTemplateParams ==
    /\ pc = "extract"
    /\ state' = [result |-> extract_template_params(req.user_prompt, start.template_version)]
    /\ ran' = "extract_template_params"
    /\ pc' = "extracted"
    /\ UNCHANGED <<sessions, req, start, pre, renderCalls, outcomes, waiting, suspended>>

\* nodes.py:264-283
ExtractInUserTurn ==
    /\ pc = "extract"
    /\ state' = [result |-> ExtractedParams(req.user_prompt, start.template_version)]
    /\ ran' = "user_turn"
    /\ pc' = "extracted"
    /\ UNCHANGED <<sessions, req, start, pre, renderCalls, outcomes, waiting, suspended>>

NextExtract == ExtractTemplatePreference \/ ExtractTemplateParams \/ ExtractInUserTurn

SpecExtract == InitExtract /\ [][NextExtract]_vars

(***************************************************************************)
(* Extraction and merge: the extraction step of user_turn (nodes.py:264-   *)
(* 283) and its merge into template_params (285-289), applied once and     *)
(* once more to any text of MergeTexts, for any template and any stored    *)
(* parameters; and extract_template_params applied to the same texts.      *)
(* start holds the template and the stored parameters, state the result.   *)
(***************************************************************************)
\* parameter dicts a session may hold when the message arrives
MergeStartParams ==
    {None} \cup
    { UpdateAll(<<i, p, c>>) :
        i \in {EmptyParams, Entry("image_url", "https://www.x.com/a.png"),
               Entry("image_url", "http://old.com/o.jpg")},
        p \in {EmptyParams, Entry("property_price", <<"$", "4", "5", "0", ",", "0", "0", "0">>)},
        c \in {EmptyParams, Entry("modern_color", "blue"), Entry("cta_color", "red")} }

InitMerge ==
    /\ pc = "extract"
    /\ req \in [session_id : {""}, user_prompt : MergeTexts, template_version : {NoHint}]
    /\ start \in [template_version : 1..3, template_params : MergeStartParams]
    /\ state = None
    /\ sessions = [sid \in SessionIds |-> None]
    /\ pre = None
    /\ ran = ""
    /\ renderCalls = <<>>
    /\ outcomes = <<>>
    /\ waiting = {}
    /\ suspended = {}

\* nodes.py:264-289 on the stored parameters
MergeOnce ==
    /\ pc = "extract"
    /\ pre' = [result |-> start.template_params]
    /\ state' = [result |-> MergeExtracted(start.template_params,
                                ExtractedParams(req.user_prompt, start.template_version))]
    /\ ran' = "merge"
    /\ pc' = "merged"
    /\ UNCHANGED <<sessions, req, start, renderCalls, outcomes, waiting, suspended>>

\* nodes.py:264-289 once more, on the parameters the first run left
MergeAgain ==
    /\ pc = "merged"
    /\ pre' = state
    /\ state' = [result |-> MergeExtracted(state.result,
                                ExtractedParams(req.user_prompt, start.template_version))]
    /\ ran' = "merge again"
    /\ pc' = "merged again"
    /\ UNCHANGED <<sessions, req, start, renderCalls, outcomes, waiting, suspended>>

NextMerge == ExtractTemplateParams \/ ExtractInUserTurn \/ MergeOnce \/ MergeAgain

SpecMerge == InitMerge /\ [][NextMerge]_vars

(***************************************************************************)
(* The rendering tool alone: generate_real_estate_poster invoked once, as  *)
(* generate_template invokes it, for any template and any parameters that  *)
(* user_turn can have stored for that template.  start holds the template  *)
(* and the parameters, state the layer map sent to the rendering service.  *)
(***************************************************************************)
\* nodes.py:70-237: the keys extract_template_params stores for each template,
\* image_url aside
StoredKeys(template_version) ==
    CASE template_version = 1 ->
           { "property_price", "modern_text", "home_text", "for_sale_text",
             "start_from_text", "cta_text", "website_text", "modern_color", "home_color",
             "for_sale_color", "start_from_color", "price_color", "cta_color",
             "website_color" }
      [] template_version = 2 ->
           { "house_agent_text", "tagline_text", "info_header_text", "contact_info_text",
             "text_1_color", "text_1_copy_color", "text_1_copy_copy_color",
             "text_1_copy_copy_copy_color" }
      [] template_version = 3 ->
           { "secondary_image_url1", "secondary_image_url2", "secondary_image_url3",
             "title_1_text", "title_2_text", "cta_button_text", "info_text",
             "template3_website_text", "title_1_color", "title_2_color", "cta_color",
             "info_color", "template3_website_color" }

\* a value of the user for key k
StoredValue(k) ==
    CASE k = "image_url" -> "https://www.x.com/a.png"
      [] k = "property_price" -> <<"$", "4", "5", "0", ",", "0", "0", "0">>
      [] OTHER -> "the user's " \o k

\* the parameter dicts of a template that hold an image_url
StoredParams(template_version) ==
    { [k \in ks \cup {"image_url"} |-> StoredValue(k)] :
        ks \in SUBSET StoredKeys(template_version) }

InitRender ==
    /\ pc = "invoke"
    /\ \E template_version \in 1..3 :
         \E template_params \in StoredParams(template_version) :
            start = [template_version |-> template_version,
                     template_params  |-> template_params]
    /\ req = NoRequest
    /\ state = None
    /\ sessions = [sid \in SessionIds |-> None]
    /\ pre = None
    /\ ran = ""
    /\ renderCalls = <<>>
    /\ outcomes = <<>>
    /\ waiting = {}
    /\ suspended = {}

\* nodes.py:529, tools.py:51-145
GenerateRealEstatePoster ==
    /\ pc = "invoke"
    /\ state' = [layers |-> LayerMap(start.template_version, start.template_params)]
    /\ ran' = "generate_real_estate_poster"
    /\ pc' = "rendered"
    /\ UNCHANGED <<sessions, req, start, pre, renderCalls, outcomes, waiting, suspended>>

NextRender == GenerateRealEstatePoster

SpecRender == InitRender /\ [][NextRender]_vars

(***************************************************************************)
(* Properties of the chat endpoint (Spec).                                 *)
(***************************************************************************)
\* C1: the force flag is one-shot.  A turn that found force_generation unset
\* (and in which the endpoint itself switched no template) has the flag unset
\* again when it reaches its response: whatever set it in the turn, the
\* generation branch or a reset cleared it.
C1_ForceFlagIsOneShot ==
    ( /\ pc = "respond"
      /\ ~start.force_generation
      /\ ~TemplateSwitched(start, req.user_prompt, req.template_version) )
    => ~state.force_generation

\* C1: a turn that found the flag unset, set it, ran the generation branch
\* with success, and answers with the flag still set.
C1_FlagSurvivesGeneration ==
    /\ pc = "respond"
    /\ ~start.force_generation
    /\ req.template_version = NoHint
    /\ state.template_version = start.template_version
    /\ renderCalls # <<>>
    /\ state.status = "TEMPLATE_GENERATED"
    /\ state.force_generation

\* C2: re-generation guard.  In a session whose status is TEMPLATE_GENERATED
\* (and whose force flag is unset), a turn that changes no parameter, switches
\* no template and carries no generation or regeneration keyword does not
\* invoke the rendering tool, and the generation_result stays.
C2_RegenerationGuard ==
    ( /\ pc = "respond"
      /\ start.status = "TEMPLATE_GENERATED"
      /\ ~start.force_generation
      /\ req.template_version = NoHint
      /\ ~AnyPhrase(req.user_prompt, LAMBDA ph : ph.kwRegen \/ ph.kwGen \/ ph.kwUrl)
      /\ state.template_version = start.template_version
      /\ state.template_params = start.template_params )
    => /\ renderCalls = <<>>
       /\ state.generation_result = start.generation_result

\* C2: small talk in a generated session of template 1 whose flag is unset,
\* answered after the rendering tool was invoked again.
C2_SmallTalkRendersAgain ==
    /\ pc = "respond"
    /\ start.status = "TEMPLATE_GENERATED"
    /\ ~start.force_generation
    /\ req.template_version = NoHint
    /\ req.user_prompt = <<"thanks">>
    /\ state.template_version = start.template_version
    /\ state.template_params = start.template_params
    /\ renderCalls # <<>>

\* C3: the two-turn scenario on a fresh session.  The message choosing
\* template 2 with an image URL ends with template 2, the parameters
\* {image_url} and status READY_TO_GENERATE; the following message
\* "generate it" invokes the rendering tool for template 2 with that image_url
\* and the session is still on template 2.
C3_TwoTurnScenario ==
    LET image == Entry("image_url", "https://www.x.com/a.png")
    IN  /\ ( /\ pc = "respond"
             /\ start.messages # <<>>
             /\ req.template_version = NoHint
             /\ req.user_prompt = <<"use template 2", "www.x.com/a.png">> )
           => /\ state.template_version = 2
              /\ state.template_params = image
              /\ state.status = "READY_TO_GENERATE"
        /\ ( /\ pc = "respond"
             /\ start.template_version = 2
             /\ start.template_params = image
             /\ req.template_version = NoHint
             /\ req.user_prompt = <<"generate it">> )
           => /\ state.template_version = 2
              /\ renderCalls # <<>>
              /\ \A i \in 1..Len(renderCalls) :
                     renderCalls[i] = [template_version |-> 2, params |-> image]

\* C3: "generate it" in a session of template 2 that holds an image_url,
\* answered on template 1 after rendering template 1.
C3_GenerateItLeavesTemplateTwo ==
    /\ pc = "respond"
    /\ start.template_version = 2
    /\ start.template_params = Entry("image_url", "https://www.x.com/a.png")
    /\ req.template_version = NoHint
    /\ req.user_prompt = <<"generate it">>
    /\ state.template_version = 1
    /\ \E i \in 1..Len(renderCalls) : renderCalls[i].template_version = 1

\* C4: in every stored session, and in the state a turn answers with, status
\* TEMPLATE_GENERATED implies that generation_result is present and is what a
\* call of the rendering tool returned without raising.
C4_GeneratedHasResult ==
    LET Returned == { RenderResult(outcome) : outcome \in {"ok", "no_url"} }
    IN  /\ \A sid \in SessionIds :
               (sessions[sid] # None /\ sessions[sid].status = "TEMPLATE_GENERATED")
               => (sessions[sid].generation_result # None
                   /\ sessions[sid].generation_result \in Returned)
        /\ (pc = "respond" /\ state.status = "TEMPLATE_GENERATED")
           => (state.generation_result # None /\ state.generation_result \in Returned)

\* C4: a turn with a template switch and two calls of the rendering tool that
\* answers in status TEMPLATE_GENERATED, in a session that had no result.
C4_GeneratedAfterSwitch ==
    /\ pc = "respond"
    /\ start.generation_result = None
    /\ state.template_version # start.template_version
    /\ Len(renderCalls) = 2
    /\ state.status = "TEMPLATE_GENERATED"
    /\ state.generation_result = RenderResult("ok")

\* C5: in every stored session, every key of template_params belongs to the
\* schema (customizable_elements) of the session's template_version.
C5_ParamsWithinSchema ==
    \A sid \in SessionIds :
        sessions[sid] # None
        => Keys(sessions[sid].template_params) \subseteq Schema(sessions[sid].template_version)

\* C5: a stored session of template 3 holding cta_color, a key of template 1.
C5_Template3HoldsCtaColor ==
    \E sid \in SessionIds :
        /\ pc = "idle"
        /\ sessions[sid] # None
        /\ sessions[sid].template_version = 3
        /\ "cta_color" \in Keys(sessions[sid].template_params)

\* C7: template_version changes during a turn only on a template signal.  A
\* message without an explicit selection, a bare "template N" and a thematic
\* keyword, sent without a template number in the request, leaves
\* template_version as it was and drops no accumulated parameter.
C7_TemplateChangesOnlyOnSignal ==
    ( /\ pc = "respond"
      /\ req.template_version = NoHint
      /\ ~AnyPhrase(req.user_prompt,
                    LAMBDA ph : ph.tplExplicit # NoDigit \/ ph.tplBare # NoDigit
                                \/ ph.theme # {}) )
    => /\ state.template_version = start.template_version
       /\ Keys(start.template_params) \subseteq Keys(state.template_params)

\* C7: small talk in a session of template 3, answered on template 1.
C7_SmallTalkLeavesTemplateThree ==
    /\ pc = "respond"
    /\ start.template_version = 3
    /\ req.template_version = NoHint
    /\ req.user_prompt = <<"thanks">>
    /\ state.template_version = 1

(***************************************************************************)
(* Properties of the nodes invoked directly (SpecNode).                    *)
(***************************************************************************)
\* C6: when user_turn finds a template preference other than template_version,
\* whatever the status was, the state it returns is on the preferred template,
\* holds exactly the parameters extracted from this message for that template
\* (nothing collected before survives), and its status is COLLECTING_INFO
\* unless this message alone brings the required parameters.
C6_SwitchClearsParams ==
    ( /\ ran = "user_turn"
      /\ HasHuman(pre)
      /\ extract_template_preference(req.user_prompt) # pre.template_version )
    => LET preference == extract_template_preference(req.user_prompt)
           required == IF preference = 1 THEN {"image_url", "property_price"}
                       ELSE {"image_url"}
       IN  /\ state.template_version = preference
           /\ state.template_params = ExtractedParams(req.user_prompt, preference)
           /\ state.status = IF required \subseteq DOMAIN state.template_params
                             THEN "READY_TO_GENERATE"
                             ELSE "COLLECTING_INFO"

\* C6: a generated session holding an image and a price is switched by a
\* message without parameters: the parameters are empty, status COLLECTING_INFO.
C6_GeneratedSessionSwitched ==
    /\ ran = "user_turn"
    /\ HasHuman(pre)
    /\ pre.status = "TEMPLATE_GENERATED"
    /\ Keys(pre.template_params) = {"image_url", "property_price"}
    /\ state.template_version # pre.template_version
    /\ state.template_params = EmptyParams
    /\ state.status = "COLLECTING_INFO"

\* C8 (as stated): user_turn turns force_generation from false to true only if
\* (regeneration or URL intent and a parameter changed) or (a parameter changed
\* and status is READY_TO_GENERATE or TEMPLATE_GENERATED) or (template 1 and a
\* direct price modification).
C8_ForceSetOnlyOnChange ==
    (ran = "user_turn" /\ ~pre.force_generation /\ state.force_generation)
    => LET text == req.user_prompt
           switched == extract_template_preference(text) # pre.template_version
           changed == /\ ~switched
                      /\ \E k \in Keys(pre.template_params) :
                             state.template_params[k] # pre.template_params[k]
           status == IF switched THEN "COLLECTING_INFO" ELSE pre.status
       IN  \/ AnyPhrase(text, LAMBDA ph : ph.kwRegen \/ ph.kwUrl) /\ changed
           \/ changed /\ status \in {"READY_TO_GENERATE", "TEMPLATE_GENERATED"}
           \/ /\ state.template_version = 1
              /\ AnyPhrase(text, LAMBDA ph : ph.priceModAny # NoChars)

\* C8 (amended): user_turn turns force_generation from false to true only if
\* one of the three conditions above holds, or the message carries a
\* regeneration keyword and the required parameters of the template are all
\* present after the merge.
C8_ForceSetOnlyOnChangeOrRequest ==
    (ran = "user_turn" /\ ~pre.force_generation /\ state.force_generation)
    => LET text == req.user_prompt
           switched == extract_template_preference(text) # pre.template_version
           changed == /\ ~switched
                      /\ \E k \in Keys(pre.template_params) :
                             state.template_params[k] # pre.template_params[k]
           status == IF switched THEN "COLLECTING_INFO" ELSE pre.status
           required == IF state.template_version = 1
                       THEN {"image_url", "property_price"}
                       ELSE {"image_url"}
       IN  \/ AnyPhrase(text, LAMBDA ph : ph.kwRegen \/ ph.kwUrl) /\ changed
           \/ changed /\ status \in {"READY_TO_GENERATE", "TEMPLATE_GENERATED"}
           \/ /\ state.template_version = 1
              /\ AnyPhrase(text, LAMBDA ph : ph.priceModAny # NoChars)
           \/ /\ AnyPhrase(text, LAMBDA ph : ph.kwRegen)
              /\ required \subseteq Keys(state.template_params)

\* C8: "generate it" on a session of template 1 that holds image and price:
\* no parameter changes, no price is modified, and the flag is set.
C8_RequestAloneSetsFlag ==
    /\ ran = "user_turn"
    /\ ~pre.force_generation
    /\ state.force_generation
    /\ req.user_prompt = <<"generate it">>
    /\ state.template_version = pre.template_version
    /\ state.template_params = pre.template_params

\* C9: check_requirements on a state whose force flag is unset returns status
\* READY_TO_GENERATE if every required key of the template (template 1:
\* image_url and property_price; templates 2 and 3: image_url) is a key of
\* template_params, and COLLECTING_INFO otherwise.
C9_ReadyIffRequiredPresent ==
    (ran = "check_requirements" /\ ~pre.force_generation)
    => LET required == IF pre.template_version = 1
                       THEN {"image_url", "property_price"}
                       ELSE {"image_url"}
       IN  /\ required \subseteq Keys(pre.template_params)
              => state.status = "READY_TO_GENERATE"
           /\ ~(required \subseteq Keys(pre.template_params))
              => state.status = "COLLECTING_INFO"

\* C9: template 1 with image_url alone is sent back to COLLECTING_INFO.
C9_Template1ImageOnlyCollecting ==
    /\ ran = "check_requirements"
    /\ ~pre.force_generation
    /\ pre.template_version = 1
    /\ pre.status = "READY_TO_GENERATE"
    /\ Keys(pre.template_params) = {"image_url"}
    /\ state.status = "COLLECTING_INFO"

\* C10: generate_template on a parameter dict in which image_url is absent or
\* empty does not invoke the rendering tool, returns status COLLECTING_INFO,
\* appends exactly one error note to the history, and leaves template_params
\* and generation_result as they were.
C10_NoRenderWithoutImage ==
    ( /\ ran = "generate_template"
      /\ pre.template_params # None
      /\ ("image_url" \notin DOMAIN pre.template_params
          \/ pre.template_params["image_url"] = "") )
    => /\ renderCalls = <<>>
       /\ state.status = "COLLECTING_INFO"
       /\ state.messages = Append(pre.messages, "system:missing_image_url")
       /\ state.template_params = pre.template_params
       /\ state.generation_result = pre.generation_result

\* C10: generate_template has run on a state that holds a price, an empty
\* image_url and an earlier result, in status READY_TO_GENERATE.
C10_EmptyImageUrlRefused ==
    /\ ran = "generate_template"
    /\ pre.template_params # None
    /\ Keys(pre.template_params) = {"image_url", "property_price"}
    /\ pre.template_params["image_url"] = ""
    /\ pre.status = "READY_TO_GENERATE"
    /\ pre.generation_result # None
    /\ state.status = "COLLECTING_INFO"

\* C11: when the rendering tool raises (the request fails, the service answers
\* with a non-success status, the API key or the template id is missing, the
\* arguments are refused), generate_template returns normally: it appends
\* exactly one explanatory entry to the history, sets the status to
\* COLLECTING_INFO and leaves the parameters and the earlier result as they
\* were.
C11_RenderFailureIsReported ==
    ( /\ ran = "generate_template"
      /\ outcomes # <<>>
      /\ outcomes[Len(outcomes)] \in {"error", "validation_error"} )
    => /\ pc = "ai_turn"
       /\ state.status = "COLLECTING_INFO"
       /\ Len(state.messages) = Len(pre.messages) + 1
       /\ SubSeq(state.messages, 1, Len(pre.messages)) = pre.messages
       /\ state.messages[Len(state.messages)] \in
              {"system:generation_error", "system:image_url_required"}
       /\ state.template_params = pre.template_params
       /\ state.generation_result = pre.generation_result
       /\ state.template_version = pre.template_version

\* C11: the rendering tool has raised for a state that was ready to generate
\* and held an image_url and a price.
C11_RenderRaisedWhenReady ==
    /\ ran = "generate_template"
    /\ outcomes = <<"error">>
    /\ pre.status = "READY_TO_GENERATE"
    /\ pre.template_params # None
    /\ Keys(pre.template_params) = {"image_url", "property_price"}
    /\ state.status = "COLLECTING_INFO"

\* C12: when generate_template runs on parameters with a non-empty image_url
\* and the rendering tool returns, the generation result is the returned
\* object, the status is TEMPLATE_GENERATED, and history and parameters are
\* as they were.
C12_RenderSuccessIsStored ==
    ( /\ ran = "generate_template"
      /\ pre.template_params # None
      /\ "image_url" \in DOMAIN pre.template_params
      /\ pre.template_params["image_url"] # ""
      /\ outcomes # <<>>
      /\ outcomes[Len(outcomes)] \in {"ok", "no_url"} )
    => /\ state.generation_result = RenderResult(outcomes[Len(outcomes)])
       /\ state.status = "TEMPLATE_GENERATED"
       /\ state.messages = pre.messages
       /\ state.template_params = pre.template_params

\* C12: the rendering tool has returned an object without url for a state
\* that held the result of an earlier generation.
C12_EarlierResultReplaced ==
    /\ ran = "generate_template"
    /\ outcomes = <<"no_url">>
    /\ pre.generation_result = RenderResult("ok")
    /\ pre.status = "COLLECTING_INFO"
    /\ state.generation_result = RenderResult("no_url")

(***************************************************************************)
(* Failures, sessions and the history (Spec).                              *)
(***************************************************************************)
\* C13: no exception escapes a turn: whatever the message and whatever the
\* external calls do, a turn never ends in the HTTP 500 answer of
\* app.py:236-237; it ends with a reply.
C13_NoExceptionEscapes == pc # "error"

\* C13: the language model call of ai_turn has raised after the poster was
\* rendered; the request is about to be answered with HTTP 500, the stored
\* session holds neither the result nor the status of the generation, and
\* the history has no entry about the failure.
C13_ReplyComposerRaised ==
    /\ pc = "error"
    /\ ran = "ai_turn"
    /\ state.status = "TEMPLATE_GENERATED"
    /\ state.generation_result # None
    /\ sessions[req.session_id].generation_result = None
    /\ sessions[req.session_id].status # "TEMPLATE_GENERATED"
    /\ sessions[req.session_id].messages = state.messages
    /\ state.messages[Len(state.messages)] = "human"

(***************************************************************************)
(* Properties of concurrent requests (SpecLoop).                           *)
(***************************************************************************)
\* C14: turns never interleave: no request is ever parked in the middle of
\* its turn while another one runs; the session the request in flight works
\* on is still the one that is stored, so nothing was written to it since
\* the request read it; and the stored histories hold one user entry for
\* every request that was started, so no turn's update is lost.
C14_TurnsDoNotInterleave ==
    /\ suspended = {}
    /\ pc # "idle" =>
          /\ sessions[req.session_id] # None
          /\ sessions[req.session_id].messages = state.messages
    /\ LET started == MaxRequests - Cardinality(waiting)
           humans == UNION { { <<sid, i>> : i \in { j \in 1..Len(sessions[sid].messages) :
                                                    sessions[sid].messages[j] = "human" } } :
                             sid \in { id \in LoopSessionIds : sessions[id] # None } }
       IN  Cardinality(humans) = started

\* C14: three requests for the same session arrived together; one has been
\* answered, the second is about to be answered and its history holds both
\* user entries, and the third has not been started.
C14_SecondTurnOfThreeEnds ==
    /\ pc = "respond"
    /\ req.session_id = "s1"
    /\ Cardinality({ i \in 1..Len(state.messages) : state.messages[i] = "human" }) = 2
    /\ Cardinality(waiting) = 1
    /\ \A r \in waiting : r.session_id = "s1"
    /\ sessions["s2"] = None

\* C15: sessions are independent: a step of the turn of one session changes
\* no field of the stored state of another session, in any order of the
\* turns of the two sessions; and a session id that is seen for the first time
\* starts from the initial state with the welcome entry, whatever the other
\* session holds.
C15_SessionsAreIndependent ==
    [][ /\ \A sid \in LoopSessionIds :
             sessions'[sid] # sessions[sid] => sid \in {req.session_id, req'.session_id}
        /\ \A sid \in LoopSessionIds :
             (sessions[sid] = None /\ sessions'[sid] # None)
                => /\ req'.session_id = sid
                   /\ start' = NewSession ]_vars

\* C15: all three requests have been started, two of them for session s1
\* and one for s2; the second turn of s1 is about to be answered, and s2 is
\* stored with another template, other parameters and another history.
C15_TwoSessionsDiffer ==
    /\ pc = "respond"
    /\ req.session_id = "s1"
    /\ waiting = {}
    /\ Cardinality({ i \in 1..Len(state.messages) : state.messages[i] = "human" }) = 2
    /\ sessions["s2"] # None
    /\ sessions["s2"].template_version = 2
    /\ state.template_version = 1
    /\ state.template_params # sessions["s2"].template_params
    /\ state.messages # sessions["s2"].messages

\* C16: the history is append-only: in every step of every turn (the API
\* layer, user_turn, check_requirements, generate_template, ai_turn, the
\* store of the result and the HTTP 500 answer) the stored history of every
\* session before the step is a prefix of the one after it, and so is the
\* history of the state the graph works on; the API layer extends the
\* history it read.
C16_HistoryIsAppendOnly ==
    [][ /\ \A sid \in LoopSessionIds :
             sessions[sid] # None
                => /\ sessions'[sid] # None
                   /\ Len(sessions[sid].messages) <= Len(sessions'[sid].messages)
                   /\ SubSeq(sessions'[sid].messages, 1, Len(sessions[sid].messages))
                         = sessions[sid].messages
        /\ (pc # "idle" /\ pc' # "idle")
                => /\ Len(state.messages) <= Len(state'.messages)
                   /\ SubSeq(state'.messages, 1, Len(state.messages)) = state.messages
        /\ (pc = "idle" /\ pc' # "idle")
                => /\ Len(start'.messages) < Len(state'.messages)
                   /\ SubSeq(state'.messages, 1, Len(start'.messages)) = start'.messages
      ]_vars

\* C16: the third turn of a session is about to be answered after a switch
\* of template, a generation request and a failure of the rendering tool in
\* this turn: its history holds the entries of the three turns, the first
\* two of them answered.
C16_ThirdTurnKeepsHistory ==
    /\ pc = "respond"
    /\ waiting = {}
    /\ Cardinality({ i \in 1..Len(state.messages) : state.messages[i] = "human" }) = 3
    /\ Cardinality({ i \in 1..Len(state.messages) : state.messages[i] = "ai" }) = 3
    /\ Len(start.messages) + 5 <= Len(state.messages)
    /\ \E i \in 1..Len(state.messages) :
          i > Len(start.messages) /\ state.messages[i] = "system:template_switched"
    /\ \E i \in 1..Len(state.messages) :
          i > Len(start.messages) /\ state.messages[i] = "system:generation_error"
    /\ state.messages[1] = "system:assistant"
    /\ state.messages[2] = "system:welcome"

(***************************************************************************)
(* Properties of the requirement check and of the turn processing.         *)
(***************************************************************************)
\* C22: check_requirements on template_params that is None or an empty dict
\* returns status COLLECTING_INFO, whether force_generation is set or not.
C22_EmptyParamsCollecting ==
    (ran = "check_requirements" /\ ~Truthy(pre.template_params))
    => state.status = "COLLECTING_INFO"

\* C22: check_requirements has run on an empty dict with the force flag set,
\* and the status is READY_TO_GENERATE.
C22_ForcedReadyOnEmptyParams ==
    /\ ran = "check_requirements"
    /\ pre.template_params = EmptyParams
    /\ pre.force_generation
    /\ state.status = "READY_TO_GENERATE"

\* C23: check_requirements on a state whose force flag is set and whose
\* template_params is not None returns status READY_TO_GENERATE whatever
\* keys the parameters hold, and leaves template_params, template_version,
\* generation_result, the force flag and the history as they were.
C23_ForcedShortCircuit ==
    ( /\ ran = "check_requirements"
      /\ pre.force_generation
      /\ pre.template_params # None )
    => /\ state.status = "READY_TO_GENERATE"
       /\ state.template_params = pre.template_params
       /\ state.template_version = pre.template_version
       /\ state.generation_result = pre.generation_result
       /\ state.force_generation
       /\ state.messages = pre.messages

\* C23: check_requirements has run with the force flag set on template 1
\* parameters that hold a colour and neither image_url nor property_price,
\* with an earlier result, in status COLLECTING_INFO.
C23_ForcedWithoutRequiredKeys ==
    /\ ran = "check_requirements"
    /\ pre.force_generation
    /\ pre.template_version = 1
    /\ pre.status = "COLLECTING_INFO"
    /\ pre.template_params = Entry("cta_color", "red")
    /\ pre.generation_result # None
    /\ state.status = "READY_TO_GENERATE"

\* C24: whenever user_turn turns force_generation from unset to set,
\* generation_result is None when user_turn returns: the flag is never set
\* while an earlier result is kept.
C24_ForceSetClearsResult ==
    ( /\ ran = "user_turn"
      /\ ~pre.force_generation
      /\ state.force_generation )
    => state.generation_result = None

\* C24: user_turn has run on a generated template 1 session for a message
\* that asks to generate and changes no parameter: the flag is set and the
\* earlier result is still there.
C24_RequestSetsFlagKeepsResult ==
    /\ ran = "user_turn"
    /\ req.user_prompt = <<"generate it">>
    /\ pre.status = "TEMPLATE_GENERATED"
    /\ pre.template_version = 1
    /\ ~pre.force_generation
    /\ pre.generation_result # None
    /\ state.force_generation
    /\ state.generation_result = pre.generation_result
    /\ state.template_params = pre.template_params

\* C25 as claimed: when user_turn returns, the status is READY_TO_GENERATE
\* if the required keys of the active template are all in template_params,
\* and COLLECTING_INFO otherwise, whatever the status was before.
C25_ReadyOrCollecting ==
    (ran = "user_turn" /\ HasHuman(pre))
    => LET required == IF state.template_version = 1
                       THEN {"image_url", "property_price"}
                       ELSE {"image_url"}
       IN  IF required \subseteq Keys(state.template_params)
           THEN state.status = "READY_TO_GENERATE"
           ELSE state.status = "COLLECTING_INFO"

\* C25 amended: when user_turn returns, the status is READY_TO_GENERATE if
\* the required keys of the active template are all in template_params;
\* otherwise it is COLLECTING_INFO when the turn switched the template, and
\* the status of before when it did not.
C25_ReadyOrLeftAsItWas ==
    (ran = "user_turn" /\ HasHuman(pre))
    => LET required == IF state.template_version = 1
                       THEN {"image_url", "property_price"}
                       ELSE {"image_url"}
       IN  IF required \subseteq Keys(state.template_params)
           THEN state.status = "READY_TO_GENERATE"
           ELSE IF state.template_version # pre.template_version
           THEN state.status = "COLLECTING_INFO"
           ELSE state.status = pre.status

\* C25: user_turn has run on a template 1 session in status
\* TEMPLATE_GENERATED that holds no price, for a message that brings none:
\* the status is still TEMPLATE_GENERATED.
C25_GeneratedLeftWithoutPrice ==
    /\ ran = "user_turn"
    /\ req.user_prompt = <<"thanks">>
    /\ pre.status = "TEMPLATE_GENERATED"
    /\ pre.template_version = 1
    /\ Keys(pre.template_params) = {"image_url"}
    /\ state.template_params = pre.template_params
    /\ state.status = "TEMPLATE_GENERATED"

\* C26: when user_turn switches no template, every key extracted from the
\* message holds its newly extracted value afterwards, every key of the
\* parameters of before that was not extracted holds its value of before,
\* and no key is removed.
C26_MergeKeepsOtherKeys ==
    ( /\ ran = "user_turn"
      /\ HasHuman(pre)
      /\ state.template_version = pre.template_version )
    => LET extracted == ExtractedParams(req.user_prompt, pre.template_version)
           before    == Keys(pre.template_params)
       IN  /\ \A k \in DOMAIN extracted :
                 /\ k \in Keys(state.template_params)
                 /\ state.template_params[k] = extracted[k]
           /\ \A k \in before \ DOMAIN extracted :
                 /\ k \in Keys(state.template_params)
                 /\ state.template_params[k] = pre.template_params[k]
           /\ before \subseteq Keys(state.template_params)

\* C26: user_turn has run on template 1 parameters with an image_url and a
\* price for a message that brings another image_url: the image_url is
\* the new one and the price is the one of before.
C26_NewImageKeepsPrice ==
    /\ ran = "user_turn"
    /\ req.user_prompt = <<"http://y.com/b.jpg">>
    /\ pre.template_version = 1
    /\ state.template_version = 1
    /\ Keys(pre.template_params) = {"image_url", "property_price"}
    /\ pre.template_params["image_url"] = "https://www.x.com/a.png"
    /\ Keys(state.template_params) = {"image_url", "property_price"}
    /\ state.template_params["image_url"] = "http://y.com/b.jpg"
    /\ state.template_params["property_price"] = pre.template_params["property_price"]

\* C27: generation_result goes from None to a result, or from one result to
\* another, only in a step that calls generate_template and in which the
\* rendering tool returned: the new value is what the tool returned.  The
\* other steps (user_turn, check_requirements, ai_turn, the template switch
\* of the endpoint) leave generation_result as it was or set it to None.
C27_ResultSetOnlyByRender ==
    [][ LET before == IF pc = "idle" THEN start'.generation_result
                      ELSE state.generation_result
        IN  ( /\ state' # None
              /\ state'.generation_result # None
              /\ state'.generation_result # before )
            => /\ ran' \in {"chat_endpoint", "generate_template"}
               /\ Len(renderCalls') = Len(renderCalls) + 1
               /\ outcomes'[Len(outcomes')] \in {"ok", "no_url"}
               /\ state'.generation_result = RenderResult(outcomes'[Len(outcomes')])
      ]_vars

\* C27: generate_template has stored a result in a session that had none,
\* after a request whose user_turn cleared the earlier one.
C27_ResultStoredAfterClear ==
    /\ ran = "generate_template"
    /\ start.generation_result # None
    /\ pre.generation_result = None
    /\ state.generation_result = RenderResult("ok")
    /\ outcomes # <<>>

\* C28: a stale result never survives user_turn.  Whenever user_turn
\* switches the template, or gives a key that was stored another value,
\* generation_result is None when user_turn returns, whatever the status
\* was and whatever keywords the message holds.
C28_StaleResultCleared ==
    ( /\ ran = "user_turn"
      /\ HasHuman(pre)
      /\ \/ state.template_version # pre.template_version
         \/ \E k \in Keys(pre.template_params) \cap Keys(state.template_params) :
               state.template_params[k] # pre.template_params[k] )
    => state.generation_result = None

\* C28: user_turn has run on a generated template 1 session for the message
\* "use template 2": the template is 2, the parameters are gone and the
\* result of template 1 is still there.
C28_SwitchKeepsResult ==
    /\ ran = "user_turn"
    /\ req.user_prompt = <<"use template 2">>
    /\ pre.template_version = 1
    /\ pre.status = "TEMPLATE_GENERATED"
    /\ pre.generation_result # None
    /\ state.template_version = 2
    /\ state.template_params = EmptyParams
    /\ state.generation_result = pre.generation_result

(***************************************************************************)
(* Properties of the extraction functions (SpecExtract).                   *)
(***************************************************************************)
\* C17: extract_template_preference follows the priority explicit phrase,
\* bare mention, thematic keyword: when the "use/select template N" phrases
\* of the text with N in 1..3 all name the same N, it returns N; otherwise,
\* when there is no such phrase and the "template N" mentions with N in 1..3
\* all name the same N, it returns N; when there is neither, the thematic
\* keywords decide, those of template 1 before those of template 2 before
\* those of template 3.
C17_PriorityOfTemplateSignals ==
    ran = "extract_template_preference" =>
        LET text == req.user_prompt
            explicit == { PhraseText[text[i]].explicit : i \in 1..Len(text) } \cap (1..3)
            mention  == { PhraseText[text[i]].mention : i \in 1..Len(text) } \cap (1..3)
            themes   == UNION { PhraseTable[text[i]].theme : i \in 1..Len(text) }
        IN  IF explicit # {}
            THEN Cardinality(explicit) = 1 => state.result \in explicit
            ELSE IF mention # {}
            THEN Cardinality(mention) = 1 => state.result \in mention
            ELSE IF themes # {}
            THEN state.result = CHOOSE n \in themes : \A m \in themes : n <= m
            ELSE TRUE

\* C17: the text "use template 7 / use template 3 / contact" has been given
\* to extract_template_preference, and the result is template 2.
C17_ExplicitPhraseLosesToKeyword ==
    /\ ran = "extract_template_preference"
    /\ req.user_prompt = <<"use template 7", "use template 3", "contact">>
    /\ state.result = 2

\* C18: extract_template_preference returns a number in 1..3 for every text,
\* and it returns 1 when the text holds no template signal: no "template N"
\* with N in 1..3 and no thematic keyword.
C18_DefaultsToTemplateOne ==
    ran = "extract_template_preference" =>
        /\ state.result \in 1..3
        /\ ( \A i \in 1..Len(req.user_prompt) :
                /\ PhraseText[req.user_prompt[i]].mention \notin 1..3
                /\ PhraseTable[req.user_prompt[i]].theme = {} )
           => state.result = 1

\* C18: the text "template #25" has been given to
\* extract_template_preference, and the result is template 2.
C18_Template25GivesTemplate2 ==
    /\ ran = "extract_template_preference"
    /\ req.user_prompt = <<"template #25">>
    /\ state.result = 2

\* C19: for template 1, when the text holds a modification phrase
\* ("change/set/make [the] price to/as/be X"), property_price is made from
\* the X of the first such phrase, whatever "$amount" the text holds
\* elsewhere; without one it is made from the first "$amount".  The stored
\* value is "$", then the digits of the integer part of X, with a comma
\* before every group of three digits from the right; when X is not a
\* number it is "$" followed by X as matched.  This holds for
\* extract_template_params and for the extraction step of user_turn.
C19_PriceModificationWins ==
    ( /\ ran \in {"extract_template_params", "user_turn"}
      /\ start.template_version = 1 )
    => LET text   == req.user_prompt
           mod    == Matching(text, LAMBDA ph : ph.priceModTo # NoChars)
           dollar == Matching(text, LAMBDA ph : ph.priceDollar # NoChars)
           X      == IF mod # <<>> THEN PhraseTable[mod[1]].priceModTo
                     ELSE PhraseTable[dollar[1]].priceDollar
           number == StripCommas(X)
           stored == state.result["property_price"]
       IN  (mod # <<>> \/ dollar # <<>>)
           => /\ "property_price" \in DOMAIN state.result
              /\ stored[1] = "$"
              /\ IF DotCount(number) <= 1
                 THEN /\ StripCommas(Tail(stored)) = IntegerPart(number)
                      /\ \A i \in 2..Len(stored) :
                            stored[i] = "," <=> (Len(stored) - i + 1) % 4 = 0
                 ELSE Tail(stored) = X

\* C19: extract_template_params has run for template 1 on the text
\* "$450,000 / set price to 500000": the stored price is $500,000.
C19_ModificationAfterBareAmount ==
    /\ ran = "extract_template_params"
    /\ start.template_version = 1
    /\ req.user_prompt = <<"$450,000", "set price to 500000">>
    /\ state.result["property_price"] = <<"$", "5", "0", "0", ",", "0", "0", "0">>

\* C20: the image URL comes from the first of three rules that applies: an
\* absolute http(s) URL with an image extension, stored as it is written;
\* otherwise a www. URL with an image extension, stored with "https://" in
\* front; otherwise any www. URL, stored with "https://" in front; a later
\* rule never replaces the value of an earlier one, for every template.
C20_FirstUrlRuleWins ==
    ran = "extract_template_params" =>
        LET text == req.user_prompt
            urls(kind) == SelectSeq(text, LAMBDA t : PhraseText[t].urlKind = kind)
            abs == urls("absolute image")
            img == urls("www image")
            www == SelectSeq(text, LAMBDA t : PhraseText[t].urlKind \in {"www image", "www"})
        IN  IF abs # <<>>
            THEN state.result["image_url"] = PhraseText[abs[1]].url
            ELSE IF img # <<>>
            THEN state.result["image_url"] = "https://" \o PhraseText[img[1]].url
            ELSE IF www # <<>>
            THEN state.result["image_url"] = "https://" \o PhraseText[www[1]].url
            ELSE "image_url" \notin DOMAIN state.result

\* C20: extract_template_params has run on the text "www.z.com/home", and
\* the stored image_url is https://www.z.com.
C20_WwwUrlLosesItsPath ==
    /\ ran = "extract_template_params"
    /\ req.user_prompt = <<"www.z.com/home">>
    /\ state.result["image_url"] = "https://www.z.com"

(***************************************************************************)
(* Properties of extraction and merge (SpecMerge).                         *)
(***************************************************************************)
\* C21: extraction and merge is idempotent.  For every text, template and
\* stored parameters, extracting from the text and merging a second time
\* leaves the parameters that the first extraction and merge gave.
C21_MergeIsIdempotent ==
    ran = "merge again" => state.result = pre.result

\* C21: the second merge has run for template 1 on a text that replaced a
\* stored image_url and added a price to stored parameters.
C21_MergedTwiceAfterChange ==
    /\ ran = "merge again"
    /\ start.template_version = 1
    /\ start.template_params = UpdateAll(<<Entry("image_url", "http://old.com/o.jpg"),
                                           Entry("modern_color", "blue")>>)
    /\ req.user_prompt = <<"http://y.com/b.jpg", "set price to 500000">>
    /\ state.result = UpdateAll(<<Entry("image_url", "http://y.com/b.jpg"),
                                  Entry("modern_color", "blue"),
                                  Entry("property_price",
                                        <<"$", "5", "0", "0", ",", "0", "0", "0">>)>>)

C30_LayerMapCarriesParams ==
    ran = "generate_real_estate_poster" =>
        LET template_version == start.template_version
            params   == start.template_params
            default  == get_template_structure(template_version)
            listed   == LayerFields(template_version)
            fields   == IF template_version = 3
                        THEN Append(listed, <<"cta_color", "button-cta", "color">>)
                        ELSE listed
        IN  /\ \A i \in 1..Len(fields) :
                  state.layers[fields[i][2]][fields[i][3]] =
                      IF fields[i][1] \in DOMAIN params
                      THEN params[fields[i][1]]
                      ELSE default[fields[i][2]][fields[i][3]]
            /\ template_version = 3 =>
                  \A n \in 1..3 :
                     LET photo     == <<"photo-1", "photo-2", "photo-3">>[n]
                         secondary == <<"secondary_image_url1", "secondary_image_url2",
                                        "secondary_image_url3">>[n]
                     IN  state.layers[photo]["image_url"] =
                            IF secondary \in DOMAIN params
                            THEN params[secondary]
                            ELSE params["image_url"]

\* C30: the tool has run for template 3 on parameters that hold a button
\* colour, and the color of layer button-cta is the default white.
C30_Template3ButtonColorDropped ==
    /\ ran = "generate_real_estate_poster"
    /\ start.template_version = 3
    /\ DOMAIN start.template_params = {"image_url", "cta_color"}
    /\ state.layers["button-cta"]["color"] = "rgb(255, 255, 255)"
    /\ state.layers["image-top"]["image_url"] = start.template_params["image_url"]

(***************************************************************************)
(* Properties of the whole turn: the API layer, then the graph (Spec).     *)
(***************************************************************************)
\* C31: a switch of template by the API layer keeps exactly the stored
\* image_url, if any, and drops every other parameter; when the turn reaches
\* its response the parameters hold that image_url (or the one the message
\* brings) and, besides it, only keys extracted from the message of the turn.
C31_ApiSwitchKeepsImageUrl ==
    LET switched == TemplateSwitched(start, req.user_prompt, req.template_version)
        kept == IF HasImageUrl(start.template_params)
                THEN Entry("image_url", start.template_params["image_url"])
                ELSE EmptyParams
        extracted == ExtractedParams(req.user_prompt, state.template_version)
    IN  /\ (ran = "chat_endpoint" /\ switched) => state.template_params = kept
        /\ (pc = "respond" /\ switched)
           => /\ Keys(state.template_params) \ {"image_url"} \subseteq DOMAIN extracted
              /\ kept # EmptyParams
                 => /\ "image_url" \in Keys(state.template_params)
                    /\ "image_url" \notin DOMAIN extracted
                       => state.template_params["image_url"] = kept["image_url"]

\* C31: the API layer switched a session that held an image_url to the
\* template of the request, the message brought no image, and the turn
\* answers without an image_url.
C31_ImageUrlLostAfterApiSwitch ==
    /\ pc = "respond"
    /\ TemplateSwitched(start, req.user_prompt, req.template_version)
    /\ HasImageUrl(start.template_params)
    /\ req.template_version = 2
    /\ req.user_prompt = <<"thanks">>
    /\ "image_url" \notin Keys(state.template_params)

\* C32: the rendering tool is invoked at most once in the handling of one
\* chat request, the API layer and the graph (user_turn, check_requirements,
\* generate_template) taken together.
C32_AtMostOneRenderPerTurn == Len(renderCalls) <= 1

\* C32: a turn answers after the API layer and the graph's generate_template
\* have each invoked the rendering tool, with the same arguments.
C32_RenderedTwiceInOneTurn ==
    /\ pc = "respond"
    /\ Len(renderCalls) = 2
    /\ renderCalls[1] = renderCalls[2]
    /\ outcomes = <<"ok", "ok">>
    /\ req.template_version = NoHint
    /\ req.user_prompt = <<"use template 2">>

\* C33: the rendering tool is never invoked while a required parameter of
\* the template is missing: every invocation carries an image_url and, for
\* template 1, a property_price.
C33_RenderOnlyWithRequiredParams ==
    \A i \in 1..Len(renderCalls) :
        RequiredParams(renderCalls[i].template_version) \subseteq Keys(renderCalls[i].params)

\* C33: a turn answers TEMPLATE_GENERATED after the rendering tool was invoked
\* for template 1 with an image_url and no property_price.
C33_Template1RenderedWithoutPrice ==
    /\ pc = "respond"
    /\ renderCalls # <<>>
    /\ renderCalls[1].template_version = 1
    /\ Keys(renderCalls[1].params) = {"image_url"}
    /\ outcomes[1] = "ok"
    /\ state.status = "TEMPLATE_GENERATED"

\* C34: generation is never deferred to a later turn.  When
\* check_requirements leaves status READY_TO_GENERATE or the force flag set,
\* the graph goes on to generate_template in the same turn; generate_template
\* leaves status COLLECTING_INFO or TEMPLATE_GENERATED; and a turn that
\* reaches its response has status COLLECTING_INFO or TEMPLATE_GENERATED,
\* never READY_TO_GENERATE.
C34_GenerationNotDeferred ==
    /\ ( /\ ran = "check_requirements"
         /\ state.status = "READY_TO_GENERATE" \/ state.force_generation )
       => pc = "generate_template"
    /\ (ran = "generate_template" /\ pc # "error")
       => state.status \in {"COLLECTING_INFO", "TEMPLATE_GENERATED"}
    /\ pc = "respond" => state.status \in {"COLLECTING_INFO", "TEMPLATE_GENERATED"}

\* C34: check_requirements left READY_TO_GENERATE with the force flag unset,
\* generate_template ran in the same turn, the rendering tool raised, and the
\* turn answers in status COLLECTING_INFO.
C34_ReadyTurnEndsCollecting ==
    /\ pc = "respond"
    /\ ~state.force_generation
    /\ RequiredParams(state.template_version) \subseteq Keys(state.template_params)
    /\ Len(renderCalls) = 1
    /\ outcomes = <<"error">>
    /\ state.status = "COLLECTING_INFO"

\* C35: when the request carries a template number N in 1..3, the session is
\* on template N when the turn reaches its response, whatever the message
\* says, and an image_url that the switch of the API layer kept is still
\* among the parameters.
C35_HintDecidesTemplate ==
    (pc = "respond" /\ req.template_version \in 1..3)
    => /\ state.template_version = req.template_version
       /\ ( /\ TemplateSwitched(start, req.user_prompt, req.template_version)
            /\ HasImageUrl(start.template_params) )
          => "image_url" \in Keys(state.template_params)

\* C35: a request with template number 2 and the message "template 3" is
\* answered on template 3.
C35_MessageOverridesHint ==
    /\ pc = "respond"
    /\ req.template_version = 2
    /\ req.user_prompt = <<"template 3">>
    /\ start.template_version = 1
    /\ state.template_version = 3
    /\ renderCalls # <<>>
    /\ renderCalls[1].template_version = 2

\* C36: types of the session state.  In every reachable state
\* template_version is 1, 2 or 3 and status is one of the four status values.
\* Once user_turn has run on the message of a turn, template_params is a
\* dict, and once check_requirements has run as well, status is not
\* WAITING_FOR_USER; the state stored at the response is such a state; and a
\* stored state that is such a state stays one.
C36_SessionStateTypes ==
    /\ [](\A sid \in SessionIds : sessions[sid] # None => StateTypes(sessions[sid]))
    /\ [](state # None => StateTypes(state))
    /\ [](ran = "user_turn" => state.template_params # None)
    /\ [](ran \in {"check_requirements", "generate_template", "ai_turn"}
          => MessageProcessed(state))
    /\ [][ /\ pc = "respond" => MessageProcessed(sessions'[req.session_id])
           /\ \A sid \in SessionIds :
                (sessions[sid] # None /\ MessageProcessed(sessions[sid]))
                => MessageProcessed(sessions'[sid]) ]_vars

\* C36: the first message of a session, one without any parameter, has been
\* answered: the turn began with template_params None in status
\* WAITING_FOR_USER and ends with the empty dict in status COLLECTING_INFO.
C36_FirstTurnLeavesEmptyDict ==
    /\ pc = "respond"
    /\ start.template_params = None
    /\ start.status = "WAITING_FOR_USER"
    /\ req.user_prompt = <<"thanks">>
    /\ state.template_params = EmptyParams
    /\ state.status = "COLLECTING_INFO"
    /\ state.template_version = 1

\* C37: readiness does not regress without a template switch.  Neither
\* check_requirements nor generate_template (whether it returns a result,
\* refuses for want of an image_url or the rendering tool raises, as a graph
\* node or called by the API layer) changes template_params; in a turn
\* without a switch the keys held when the request arrived are all still
\* held, so required keys that were present stay present; and over every
\* step that leaves the template_version of a stored session as it was, the
\* keys of its template_params only grow.
C37_ReadinessDoesNotRegress ==
    /\ []( (ran \in {"check_requirements", "generate_template"})
           => state.template_params = pre.template_params )
    /\ []( ( /\ ran = "chat_endpoint"
             /\ ~TemplateSwitched(start, req.user_prompt, req.template_version) )
           => state.template_params = start.template_params )
    /\ []( ( /\ pc \notin {"idle", "user_turn"}
             /\ ~TemplateSwitched(start, req.user_prompt, req.template_version)
             /\ state.template_version = start.template_version )
           => /\ Keys(start.template_params) \subseteq Keys(state.template_params)
              /\ RequiredParams(start.template_version) \subseteq Keys(start.template_params)
                 => RequiredParams(state.template_version)
                        \subseteq Keys(state.template_params) )
    /\ [][ \A sid \in SessionIds :
             ( /\ sessions[sid] # None
               /\ sessions'[sid] # None
               /\ sessions'[sid].template_version = sessions[sid].template_version )
             => Keys(sessions[sid].template_params)
                    \subseteq Keys(sessions'[sid].template_params) ]_vars

\* C37: a generated session of template 1 holding an image and a price gets
\* a message without parameters, the rendering tool raises, and the turn
\* answers in status COLLECTING_INFO with both parameters as they were.
C37_ParamsKeptWhenRenderFails ==
    /\ pc = "respond"
    /\ start.template_version = 1
    /\ start.status = "TEMPLATE_GENERATED"
    /\ Keys(start.template_params) = {"image_url", "property_price"}
    /\ state.template_version = 1
    /\ outcomes # <<>>
    /\ outcomes[Len(outcomes)] = "error"
    /\ state.status = "COLLECTING_INFO"
    /\ state.template_params = start.template_params

=============================================================================
